---- MODULE Spec2Model ----
(***************************************************************************)
(* ragpack: chunkers (lib/chunk), tokenizer (lib/tokenize), BM25 index     *)
(* (lib/bm25) and the retrieval worker (workers/rag.worker).               *)
(*                                                                         *)
(* A text is a sequence of one-character strings; offsets are 0-based as   *)
(* in the source, so character i of the source is text[i + 1] here.        *)
(* A JavaScript Map is a sequence of <<key, value>> pairs in insertion     *)
(* order with pairwise distinct keys.                                      *)
(***************************************************************************)
EXTENDS Integers, Sequences, FiniteSets, TLC

(***************************************************************************)
(* Bounds of the model.                                                    *)
(***************************************************************************)
\* Longest document text handed to a chunker.
MaxLen == 5

\* Largest maxTokens / overlapTokens argument of the token chunkers.
MaxTokensArg == 2

\* Largest targetChars argument of the packing chunkers.
MaxTargetChars == 3

\* Largest sentenceOverlap argument.
MaxSentenceOverlap == 1

\* Most documents ever added to one BM25Index, and most per addDocuments call.
MaxIndexDocs == 3

MaxBatch == 2

\* Largest topK of a search.
MaxTopK == 2

\* Most requests the worker receives.
MaxRequests == 2

\* Longest sparse and dense ranking handed to the rank fusion.
MaxSparseRank == 2

MaxDenseRank == 5

\* Characters of the documents: a letter, the two white-space characters the
\* chunkers distinguish and the heading marker.
Alphabet == {"a", " ", "\n", "#"}

\* typeof undefined: what an out-of-range array read yields.
Undefined == -1

(***************************************************************************)
(* String and array helpers of the JavaScript runtime.                     *)
(***************************************************************************)
Min(a, b) == IF a < b THEN a ELSE b

Max(a, b) == IF a > b THEN a ELSE b

\* The regular expression class \s on the alphabet.
IsSpace(c) == c \in {" ", "\n"}

\* text.slice(start, end) for start >= 0; end = Undefined slices to the end.
Slice(text, start, end) ==
  LET e == IF end = Undefined THEN Len(text) ELSE Min(end, Len(text))
      s == Min(start, Len(text))
  IN IF e <= s THEN <<>> ELSE SubSeq(text, s + 1, e)

\* text.trim()
Trim(text) ==
  LET nonSpace == {i \in 1..Len(text) : ~IsSpace(text[i])}
  IN IF nonSpace = {} THEN <<>>
     ELSE LET lo == CHOOSE i \in nonSpace : \A j \in nonSpace : i <= j
              hi == CHOOSE i \in nonSpace : \A j \in nonSpace : i >= j
          IN SubSeq(text, lo, hi)

\* text.endsWith("\n")
EndsWithNewline(text) == Len(text) > 0 /\ text[Len(text)] = "\n"

\* The elements of a finite set of integers in increasing order.
SortedSeq(S) ==
  [i \in 1..Cardinality(S) |-> CHOOSE x \in S : Cardinality({y \in S : y < x}) = i - 1]

\* array.slice(start) with JavaScript's treatment of a negative start.
SliceFrom(seq, start) ==
  LET from == IF start < 0 THEN Max(Len(seq) + start, 0) ELSE Min(start, Len(seq))
  IN SubSeq(seq, from + 1, Len(seq))

\* array.join(sep) of an array of texts.
RECURSIVE Join(_, _)
Join(parts, sep) ==
  IF Len(parts) = 0 THEN <<>>
  ELSE IF Len(parts) = 1 THEN parts[1]
  ELSE parts[1] \o sep \o Join(Tail(parts), sep)

\* `${docId}:${charStart}-${charEnd}`
FormatNumber(n) == IF n = Undefined THEN "undefined" ELSE ToString(n)

FormatId(docId, charStart, charEnd) ==
  docId \o ":" \o FormatNumber(charStart) \o "-" \o FormatNumber(charEnd)

MakeChunk(docId, text, charStart, charEnd) ==
  [id |-> FormatId(docId, charStart, charEnd), docId |-> docId, text |-> text,
   charStart |-> charStart, charEnd |-> charEnd]

(***************************************************************************)
(* chunkByTokens                                                           *)
(***************************************************************************)
\* [...text.matchAll(/\S+/g)]: start and end offsets of the maximal runs of
\* non-space characters.
TokenStarts(text) ==
  SelectSeq([k \in 1..Len(text) |-> k - 1],
            LAMBDA i : ~IsSpace(text[i + 1]) /\ (i = 0 \/ IsSpace(text[i])))

\* Mutant of TokenEnds: the offset of the last character of each run instead
\* of the offset after it.
TokenEndsLastChar(text) ==
  SelectSeq([k \in 1..Len(text) |-> k - 1],
            LAMBDA i : ~IsSpace(text[i + 1]) /\ (i + 1 = Len(text) \/ IsSpace(text[i + 2])))

TokenEnds(text) ==
  SelectSeq([k \in 1..Len(text) |-> k],
            LAMBDA i : ~IsSpace(text[i]) /\ (i = Len(text) \/ IsSpace(text[i + 1])))

\* tokenStarts[k], tokenEnds[k] with JavaScript's out-of-range reads.
At(arr, k) == IF k \in 0..(Len(arr) - 1) THEN arr[k + 1] ELSE Undefined

RECURSIVE TokenWindows(_, _, _, _, _, _)
TokenWindows(text, docId, maxTokens, stride, tStart, chunks) ==
  LET n == Len(TokenStarts(text))
  IN IF ~(tStart < n) THEN chunks
     ELSE LET tEnd == Min(tStart + maxTokens, n)
              charStart == At(TokenStarts(text), tStart)
              charEnd == At(TokenEnds(text), tEnd - 1)
              piece == Slice(text, charStart, charEnd)
              next == Append(chunks, MakeChunk(docId, piece, charStart, charEnd))
          IN IF tEnd = n THEN next
             ELSE TokenWindows(text, docId, maxTokens, stride, tStart + stride, next)

\* Mutant of chunkByTokens: the stride is the whole window, the overlap ignored.
chunkByTokensWithoutOverlap(text, docId, maxTokens, overlapTokens) ==
  IF Len(TokenStarts(text)) = 0 THEN <<>>
  ELSE TokenWindows(text, docId, maxTokens, Max(1, maxTokens), 0, <<>>)

chunkByTokens(text, docId, maxTokens, overlapTokens) ==
  IF Len(TokenStarts(text)) = 0 THEN <<>>
  ELSE TokenWindows(text, docId, maxTokens,
                    Max(1, maxTokens - Max(0, overlapTokens)), 0, <<>>)

(***************************************************************************)
(* The runtime: whether Intl.Segmenter exists is a property of the         *)
(* JavaScript engine the worker runs on, fixed for a whole run.            *)
(***************************************************************************)
VARIABLE hasSegmenter

\* splitParagraphs: the parts between the maximal runs of two or more
\* newlines (/\n{2,}/g), those that trim to nothing filtered out.
NewlineRunStarts(text) ==
  SortedSeq({i \in 0..(Len(text) - 2) :
               /\ text[i + 1] = "\n" /\ text[i + 2] = "\n"
               /\ (i = 0 \/ text[i] # "\n")})

NewlineRunEnd(text, i) ==
  LET rest == {j \in i..(Len(text) - 1) : text[j + 1] # "\n"}
  IN IF rest = {} THEN Len(text) ELSE CHOOSE j \in rest : \A k \in rest : j <= k

Part(text, start, end) == [start |-> start, end |-> end, text |-> Slice(text, start, end)]

splitParagraphs(text) ==
  LET runs == NewlineRunStarts(text)
      idxAt(k) == IF k = 1 THEN 0 ELSE NewlineRunEnd(text, runs[k - 1])
      parts == [k \in 1..(Len(runs) + 1) |->
                  IF k <= Len(runs) THEN Part(text, idxAt(k), runs[k])
                  ELSE Part(text, idxAt(k), Len(text))]
  IN SelectSeq(parts, LAMBDA p : Len(Trim(p.text)) > 0)

\* splitByHeadings: /^#{1,6} .*$/gm matches at a line start that holds one to
\* six '#' followed by a space.
HashRun(text, i) ==
  LET rest == {j \in i..(Len(text) - 1) : text[j + 1] # "#"}
  IN (IF rest = {} THEN Len(text) ELSE CHOOSE j \in rest : \A k \in rest : j <= k) - i

HeadingStarts(text) ==
  SortedSeq({i \in 0..(Len(text) - 1) :
               /\ (i = 0 \/ text[i] = "\n")
               /\ HashRun(text, i) \in 1..6
               /\ i + HashRun(text, i) < Len(text)
               /\ text[i + HashRun(text, i) + 1] = " "})

splitByHeadings(text) ==
  LET indices == <<0>> \o HeadingStarts(text) \o <<Len(text)>>
  IN [i \in 1..(Len(indices) - 1) |-> Part(text, indices[i], indices[i + 1])]

\* Intl.Segmenter(undefined, {granularity: "sentence"}).segment(pText): the
\* segments partition the input; on the alphabet the only sentence boundary of
\* Unicode's rules is the one after a line feed (rule SB4, ParaSep).
Segment(pText) ==
  LET starts == SortedSeq({i \in 0..(Len(pText) - 1) : i = 0 \/ pText[i] = "\n"})
      endOf(k) == IF k < Len(starts) THEN starts[k + 1] ELSE Len(pText)
  IN [k \in 1..Len(starts) |->
        [segment |-> Slice(pText, starts[k], endOf(k)), index |-> starts[k]]]

(***************************************************************************)
(* chunkBySentencesParagraphs                                              *)
(***************************************************************************)
\* accText + (accText.endsWith("\n") ? "" : " ") + unit, or unit alone when
\* accText is empty.
Glue(accText, unit) ==
  (IF Len(accText) > 0
   THEN accText \o (IF EndsWithNewline(accText) THEN <<>> ELSE <<" ">>)
   ELSE <<>>) \o unit

\* chunks.push({id, docId, text: accText.trim(), charStart: accStart, charEnd: lastEnd})
Flush(st, docId) ==
  Append(st.chunks, MakeChunk(docId, Trim(st.accText), st.accStart, st.lastEnd))

\* One iteration of the sentence loop; overlapQueue holds the sentences of the
\* paragraph met so far.
SentenceStep(st, docId, targetChars, sentenceOverlap, s, pStart, overlapQueue) ==
  LET sStart == pStart + s.index
      sEnd == sStart + Len(s.segment)
      candidate == Glue(st.accText, s.segment)
      flushed == Len(candidate) >= targetChars /\ Len(st.accText) > 0
      st1 == IF flushed
             THEN [st EXCEPT !.chunks = Flush(st, docId),
                             !.accText = Join(SliceFrom(overlapQueue, 0 - sentenceOverlap), <<" ">>),
                             !.accStart = st.lastEnd]
             ELSE st
      st2 == IF Len(st1.accText) = 0 THEN [st1 EXCEPT !.accStart = sStart] ELSE st1
  IN [st2 EXCEPT !.accText = Glue(st2.accText, s.segment), !.lastEnd = sEnd]

RECURSIVE SentenceLoop(_, _, _, _, _, _, _)
SentenceLoop(st, docId, targetChars, sentenceOverlap, pStart, sentences, i) ==
  IF i > Len(sentences) THEN st
  ELSE SentenceLoop(
         SentenceStep(st, docId, targetChars, sentenceOverlap, sentences[i], pStart,
                      [k \in 1..(i - 1) |-> sentences[k].segment]),
         docId, targetChars, sentenceOverlap, pStart, sentences, i + 1)

\* flushOrAccumulate: the fallback that treats a paragraph as one unit.
flushOrAccumulate(st, docId, targetChars, unit, start, end) ==
  IF Len(st.accText \o unit) >= targetChars /\ Len(st.accText) > 0
  THEN [chunks |-> Flush(st, docId), accText |-> unit, accStart |-> start, lastEnd |-> end]
  ELSE [st EXCEPT !.accStart = IF Len(st.accText) = 0 THEN start ELSE st.accStart,
                  !.accText = st.accText \o (IF Len(st.accText) > 0 THEN <<"\n", "\n">> ELSE <<>>) \o unit,
                  !.lastEnd = end]

\* The body of the loop over paragraphs.
ParagraphStep(st, docId, targetChars, sentenceOverlap, p) ==
  IF ~hasSegmenter
  THEN flushOrAccumulate(st, docId, targetChars, p.text, p.start, p.end)
  ELSE LET st1 == SentenceLoop(st, docId, targetChars, sentenceOverlap, p.start,
                               Segment(p.text), 1)
       IN IF Len(st1.accText) >= targetChars
          THEN [st1 EXCEPT !.chunks = Flush(st1, docId), !.accText = <<>>]
          ELSE st1

RECURSIVE ParagraphLoop(_, _, _, _, _, _)
ParagraphLoop(st, docId, targetChars, sentenceOverlap, paraSplits, k) ==
  IF k > Len(paraSplits) THEN st
  ELSE ParagraphLoop(ParagraphStep(st, docId, targetChars, sentenceOverlap, paraSplits[k]),
                     docId, targetChars, sentenceOverlap, paraSplits, k + 1)

chunkBySentencesParagraphs(text, docId, targetChars, sentenceOverlap) ==
  LET st == ParagraphLoop([chunks |-> <<>>, accText |-> <<>>, accStart |-> 0, lastEnd |-> 0],
                          docId, targetChars, sentenceOverlap, splitParagraphs(text), 1)
  IN IF Len(st.accText) > 0 THEN Flush(st, docId) ELSE st.chunks

(***************************************************************************)
(* chunkRecursive                                                          *)
(***************************************************************************)
\* chunks.push({id, docId, text: buffer.trim(), charStart: bufStart, charEnd: lastEnd})
FlushBuffer(st, docId) ==
  Append(st.chunks, MakeChunk(docId, Trim(st.buffer), st.bufStart, st.lastEnd))

\* The body of the loop over the paragraphs of one section; the default
\* sentenceOverlap of the inner call is 0.
SectionParagraphStep(st, docId, targetChars, p) ==
  LET st1 == IF Len(st.buffer \o p.text) > targetChars /\ Len(st.buffer) > 0
             THEN [chunks |-> FlushBuffer(st, docId), buffer |-> p.text,
                   bufStart |-> p.start, lastEnd |-> p.end]
             ELSE [st EXCEPT !.bufStart = IF Len(st.buffer) = 0 THEN p.start ELSE st.bufStart,
                             !.buffer = st.buffer \o (IF Len(st.buffer) > 0 THEN <<"\n", "\n">> ELSE <<>>) \o p.text,
                             !.lastEnd = p.end]
  IN IF 2 * Len(p.text) > 3 * targetChars
     THEN [st1 EXCEPT !.chunks = st1.chunks \o chunkBySentencesParagraphs(p.text, docId, targetChars, 0),
                      !.buffer = <<>>]
     ELSE st1

RECURSIVE SectionParagraphLoop(_, _, _, _, _)
SectionParagraphLoop(st, docId, targetChars, paras, k) ==
  IF k > Len(paras) THEN st
  ELSE SectionParagraphLoop(SectionParagraphStep(st, docId, targetChars, paras[k]),
                            docId, targetChars, paras, k + 1)

\* One section: pack its paragraphs, then flush what is left in the buffer.
SectionChunks(chunks, docId, targetChars, sec) ==
  LET st == SectionParagraphLoop([chunks |-> chunks, buffer |-> <<>>,
                                  bufStart |-> sec.start, lastEnd |-> sec.start],
                                 docId, targetChars, splitParagraphs(sec.text), 1)
  IN IF Len(st.buffer) > 0 THEN FlushBuffer(st, docId) ELSE st.chunks

RECURSIVE SectionLoop(_, _, _, _, _)
SectionLoop(chunks, docId, targetChars, sections, k) ==
  IF k > Len(sections) THEN chunks
  ELSE SectionLoop(SectionChunks(chunks, docId, targetChars, sections[k]),
                   docId, targetChars, sections, k + 1)

chunkRecursive(text, docId, targetChars) ==
  SectionLoop(<<>>, docId, targetChars, splitByHeadings(text), 1)

(***************************************************************************)
(* parseAndChunk                                                           *)
(***************************************************************************)
\* The ChunkingMethod values the chunkers are called with (type ChunkingMethod).
Methods ==
  [kind : {"fixed_tokens"}, maxTokens : 0..MaxTokensArg]
    \cup [kind : {"sliding_tokens"}, maxTokens : 0..MaxTokensArg,
          overlapTokens : (0 - 1)..MaxTokensArg]
    \cup [kind : {"sent_paragraph"}, targetChars : 0..MaxTargetChars,
          sentenceOverlap : 0..MaxSentenceOverlap]
    \cup [kind : {"recursive"}, targetChars : 0..MaxTargetChars]

\* The conditional expression of parseAndChunk that picks the chunker.
docChunks(f, method) ==
  IF method.kind = "fixed_tokens"
  THEN chunkByTokens(f.text, f.path, method.maxTokens, 0)
  ELSE IF method.kind = "sliding_tokens"
  THEN chunkByTokens(f.text, f.path, method.maxTokens, method.overlapTokens)
  ELSE IF method.kind = "sent_paragraph"
  THEN chunkBySentencesParagraphs(f.text, f.path, method.targetChars, method.sentenceOverlap)
  ELSE chunkRecursive(f.text, f.path, method.targetChars)

RECURSIVE parseAndChunk(_, _)
parseAndChunk(files, method) ==
  IF Len(files) = 0 THEN <<>>
  ELSE docChunks(Head(files), method) \o parseAndChunk(Tail(files), method)

(***************************************************************************)
(* tokenize (default options: toLower and removeStopwords both true)       *)
(***************************************************************************)
DEFAULT_STOPWORDS ==
  {<<"a">>, <<"a", "n">>, <<"a", "n", "d">>, <<"a", "r", "e">>, <<"a", "s">>,
   <<"a", "t">>, <<"b", "e">>, <<"b", "u", "t">>, <<"b", "y">>, <<"f", "o", "r">>,
   <<"i", "f">>, <<"i", "n">>, <<"i", "n", "t", "o">>, <<"i", "s">>, <<"i", "t">>,
   <<"n", "o">>, <<"n", "o", "t">>, <<"o", "f">>, <<"o", "n">>, <<"o", "r">>,
   <<"s", "u", "c", "h">>, <<"t", "h", "a", "t">>, <<"t", "h", "e">>,
   <<"t", "h", "e", "i", "r">>, <<"t", "h", "e", "n">>, <<"t", "h", "e", "r", "e">>,
   <<"t", "h", "e", "s", "e">>, <<"t", "h", "e", "y">>, <<"t", "h", "i", "s">>,
   <<"t", "o">>, <<"w", "a", "s">>, <<"w", "i", "l", "l">>, <<"w", "i", "t", "h">>}

\* String.prototype.toLowerCase on one character: the upper-case letters that
\* occur in the documents map to their lower-case forms.
ToLowerChar(c) ==
  IF c = "A" THEN "a" ELSE IF c = "C" THEN "c" ELSE IF c = "T" THEN "t" ELSE c

\* .replace(/[^\p{L}\p{N}\s]/gu, " ") on one character: the punctuation that
\* occurs in the documents is neither letter, digit nor white space.
Punctuation == {"#", "!", ".", ",", "-"}

ReplaceChar(c) == IF c \in Punctuation THEN " " ELSE c

\* Mutant of tokenize: the stopwords are kept.
tokenizeKeepingStopwords(text) ==
  LET normalized == [i \in 1..Len(text) |-> ToLowerChar(text[i])]
      replaced == [i \in 1..Len(text) |-> ReplaceChar(normalized[i])]
      starts == TokenStarts(replaced)
      ends == TokenEnds(replaced)
  IN [k \in 1..Len(starts) |-> Slice(replaced, starts[k], ends[k])]

tokenize(text) ==
  LET normalized == [i \in 1..Len(text) |-> ToLowerChar(text[i])]
      replaced == [i \in 1..Len(text) |-> ReplaceChar(normalized[i])]
      starts == TokenStarts(replaced)
      ends == TokenEnds(replaced)
      tokens == [k \in 1..Len(starts) |-> Slice(replaced, starts[k], ends[k])]
  IN SelectSeq(tokens, LAMBDA t : t \notin DEFAULT_STOPWORDS)

(***************************************************************************)
(* Map                                                                      *)
(***************************************************************************)
MapHas(m, key) == \E i \in 1..Len(m) : m[i][1] = key

\* map.get(key) ?? dflt
MapGet(m, key, dflt) ==
  IF MapHas(m, key) THEN m[CHOOSE i \in 1..Len(m) : m[i][1] = key][2] ELSE dflt

\* map.set(key, value): a present key keeps its place in the iteration order.
MapSet(m, key, value) ==
  IF MapHas(m, key)
  THEN [i \in 1..Len(m) |-> IF m[i][1] = key THEN <<key, value>> ELSE m[i]]
  ELSE Append(m, <<key, value>>)

\* new Map(entries)
RECURSIVE MapFromEntries(_)
MapFromEntries(entries) ==
  IF Len(entries) = 0 THEN <<>>
  ELSE LET e == entries[Len(entries)]
       IN MapSet(MapFromEntries(SubSeq(entries, 1, Len(entries) - 1)), e[1], e[2])

(***************************************************************************)
(* Numbers. The scores are IEEE doubles in the source; here they are        *)
(* fixed-point integers in ten-thousandths.                                 *)
(***************************************************************************)
RatioScale == 1000

\* A sum that held NaN stays NaN.
NaN == 0 - 1000000

\* Math.log(k) in ten-thousandths for the integers k the index can meet.
LogTable ==
  <<0, 6931, 10986, 13863, 16094, 17918, 19459, 20794, 21972, 23026, 23979,
    24849, 25649, 26391, 27081, 27726, 28332, 28904, 29444, 29957, 30445, 30910,
    31355, 31781, 32189, 32581, 32958, 33322, 33673, 34012, 34340, 34657, 34965,
    35264, 35553, 35835, 36109, 36376, 36636, 36889>>

\* Math.log(p / q) for positive integers p, q.
LogRatio(p, q) == LogTable[p] - LogTable[q]

(***************************************************************************)
(* BM25Index                                                               *)
(***************************************************************************)
\* k1 = 1.2 in tenths and b = 0.75 in hundredths.
K1Tenths == 12

BHundredths == 75

\* new BM25Index()
NewIndex ==
  [k1 |-> K1Tenths, b |-> BHundredths, vocab |-> <<>>, docLengths |-> <<>>,
   totalDocs |-> 0, totalDocLength |-> 0]

\* for (const t of tokens) tfMap.set(t, (tfMap.get(t) ?? 0) + 1): the loop
\* leaves the keys of tfMap in place with their counts raised, followed by the
\* other tokens in order of first occurrence with their counts.
TfMap(tokens, tfMap) ==
  LET Count(t) == Cardinality({i \in 1..Len(tokens) : tokens[i] = t})
      fresh == SortedSeq({i \in 1..Len(tokens) :
                            /\ ~MapHas(tfMap, tokens[i])
                            /\ \A j \in 1..(i - 1) : tokens[j] # tokens[i]})
  IN [k \in 1..Len(tfMap) |-> <<tfMap[k][1], tfMap[k][2] + Count(tfMap[k][1])>>]
       \o [k \in 1..Len(fresh) |-> <<tokens[fresh[k]], Count(tokens[fresh[k]])>>]

\* for (const [term, tf] of tfMap) { postings.push({docId, tf}); vocab.set(term, postings) }
RECURSIVE AddPostings(_, _, _)
AddPostings(vocab, docId, tfMap) ==
  IF Len(tfMap) = 0 THEN vocab
  ELSE LET term == Head(tfMap)[1]
           tf == Head(tfMap)[2]
           postings == Append(MapGet(vocab, term, <<>>), [docId |-> docId, tf |-> tf])
       IN AddPostings(MapSet(vocab, term, postings), docId, Tail(tfMap))

\* Mutant of AddDocument: the token count is not added to totalDocLength.
AddDocumentWithoutLength(index, doc) ==
  LET tokens == tokenize(doc.text)
  IN [index EXCEPT
        !.totalDocs = index.totalDocs + 1,
        !.docLengths = MapSet(index.docLengths, doc.id, Len(tokens)),
        !.vocab = AddPostings(index.vocab, doc.id, TfMap(tokens, <<>>))]

\* Mutant of AddDocument: a document whose id is already indexed is skipped.
AddDocumentOnce(index, doc) ==
  LET tokens == tokenize(doc.text)
  IN IF MapHas(index.docLengths, doc.id) THEN index
     ELSE [index EXCEPT
             !.totalDocs = index.totalDocs + 1,
             !.totalDocLength = index.totalDocLength + Len(tokens),
             !.docLengths = MapSet(index.docLengths, doc.id, Len(tokens)),
             !.vocab = AddPostings(index.vocab, doc.id, TfMap(tokens, <<>>))]

\* The body of the loop of addDocuments for one document.
AddDocument(index, doc) ==
  LET tokens == tokenize(doc.text)
  IN [index EXCEPT
        !.totalDocs = index.totalDocs + 1,
        !.totalDocLength = index.totalDocLength + Len(tokens),
        !.docLengths = MapSet(index.docLengths, doc.id, Len(tokens)),
        !.vocab = AddPostings(index.vocab, doc.id, TfMap(tokens, <<>>))]

RECURSIVE addDocuments(_, _)
addDocuments(index, docs) ==
  IF Len(docs) = 0 THEN index
  ELSE addDocuments(AddDocument(index, Head(docs)), Tail(docs))

\* Mutant of Idf: the idf without the "1 +", log((N - n_qi + 0.5) / (n_qi + 0.5)).
IdfWithoutOne(N, n_qi) == LogRatio(2 * (N - n_qi) + 1, 2 * n_qi + 1)

\* idf = Math.log(1 + (N - n_qi + 0.5) / (n_qi + 0.5)), which is
\* log((2N + 2) / (2 n_qi + 1)).
Idf(N, n_qi) == LogRatio(2 * N + 2, 2 * n_qi + 1)

\* idf * ((tf * (k1 + 1)) / (tf + k1 * (1 - b + (b * dl) / avgdl))) with
\* avgdl = totalDocLength / totalDocs (0 for an empty index); numerator and
\* denominator of the fraction are both multiplied by 1000 * totalDocLength.
\* A zero avgdl gives 0 / 0 = NaN for dl = 0 and a division by Infinity, hence
\* a zero score, for dl > 0.
TermScore(index, idf, tf, dl) ==
  LET N == index.totalDocs
      L == index.totalDocLength
      num == tf * (index.k1 + 10) * 100 * L
      den == 1000 * L * tf + index.k1 * ((100 - index.b) * L + index.b * dl * N)
  IN IF L = 0 THEN (IF dl = 0 THEN NaN ELSE 0)
     ELSE (idf * ((num * RatioScale) \div den)) \div RatioScale

\* a + b on doubles.
AddScore(a, b) == IF a = NaN \/ b = NaN THEN NaN ELSE a + b

\* The loop over the postings of one query term.
RECURSIVE ScorePostings(_, _, _, _)
ScorePostings(index, scores, idf, postings) ==
  IF Len(postings) = 0 THEN scores
  ELSE LET pst == Head(postings)
           dl == MapGet(index.docLengths, pst.docId, 0)
           score == TermScore(index, idf, pst.tf, dl)
       IN ScorePostings(index,
                        MapSet(scores, pst.docId, AddScore(MapGet(scores, pst.docId, 0), score)),
                        idf, Tail(postings))

\* The loop over the query tokens.
RECURSIVE ScoreTerms(_, _, _)
ScoreTerms(index, scores, qTokens) ==
  IF Len(qTokens) = 0 THEN scores
  ELSE LET term == Head(qTokens)
       IN IF ~MapHas(index.vocab, term) THEN ScoreTerms(index, scores, Tail(qTokens))
          ELSE LET postings == MapGet(index.vocab, term, <<>>)
               IN ScoreTerms(index,
                             ScorePostings(index, scores,
                                           Idf(index.totalDocs, Len(postings)), postings),
                             Tail(qTokens))

\* Mutant of GoesBefore: the comparator (a, b) => a[1] - b[1].
GoesBeforeAscending(b, a) == a[2] # NaN /\ b[2] # NaN /\ a[2] - b[2] > 0

\* The comparator (a, b) => b[1] - a[1]: positive when b goes first. A NaN
\* difference counts as 0.
GoesBefore(b, a) == a[2] # NaN /\ b[2] # NaN /\ b[2] - a[2] > 0

\* Array.prototype.sort with that comparator: stable, so entries of equal
\* score keep their order.
RECURSIVE InsertSorted(_, _)
InsertSorted(sorted, x) ==
  IF Len(sorted) = 0 THEN <<x>>
  ELSE IF GoesBefore(x, sorted[Len(sorted)])
  THEN Append(InsertSorted(SubSeq(sorted, 1, Len(sorted) - 1), x), sorted[Len(sorted)])
  ELSE Append(sorted, x)

RECURSIVE SortByScore(_)
SortByScore(entries) ==
  IF Len(entries) = 0 THEN <<>>
  ELSE InsertSorted(SortByScore(SubSeq(entries, 1, Len(entries) - 1)), entries[Len(entries)])

\* array.slice(0, topK) for topK >= 0.
Take(seq, topK) == SubSeq(seq, 1, Min(topK, Len(seq)))

search(index, query, topK) ==
  LET scores == ScoreTerms(index, <<>>, tokenize(query))
      top == Take(SortByScore(scores), topK)
  IN [i \in 1..Len(top) |-> [docId |-> top[i][1], score |-> top[i][2]]]

\* serialize(): the fields, the two maps as arrays of entries, the posting
\* lists copied.
serialize(index) ==
  [k1 |-> index.k1, b |-> index.b, totalDocs |-> index.totalDocs,
   totalDocLength |-> index.totalDocLength,
   docLengths |-> [i \in 1..Len(index.docLengths) |-> index.docLengths[i]],
   vocab |-> [i \in 1..Len(index.vocab) |->
                <<index.vocab[i][1],
                  [j \in 1..Len(index.vocab[i][2]) |->
                     [docId |-> index.vocab[i][2][j].docId, tf |-> index.vocab[i][2][j].tf]]>>]]

\* Mutant of fromJSON: the length map is not restored.
fromJSONWithoutLengths(data) ==
  [NewIndex EXCEPT
     !.k1 = data.k1, !.b = data.b, !.totalDocs = data.totalDocs,
     !.totalDocLength = data.totalDocLength,
     !.vocab = MapFromEntries(data.vocab)]

\* BM25Index.fromJSON(data): a new index whose fields are overwritten.
fromJSON(data) ==
  [NewIndex EXCEPT
     !.k1 = data.k1, !.b = data.b, !.totalDocs = data.totalDocs,
     !.totalDocLength = data.totalDocLength,
     !.docLengths = MapFromEntries(data.docLengths),
     !.vocab = MapFromEntries(
                 [i \in 1..Len(data.vocab) |->
                    <<data.vocab[i][1],
                      [j \in 1..Len(data.vocab[i][2]) |->
                         [docId |-> data.vocab[i][2][j].docId, tf |-> data.vocab[i][2][j].tf]]>>])]

(***************************************************************************)
(* The same three methods on a heap of objects. addDocuments changes        *)
(* objects in place (docLengths.set, postings.push), so what a snapshot      *)
(* shares with an index matters: the Map of lengths and every posting array  *)
(* are cells of the heap, and an index or a snapshot holds their addresses.  *)
(* The address of a new object is <<owner, slot>>: the structure it is made  *)
(* for and the field or term it is made under.                               *)
(***************************************************************************)
\* The slot of the Map of lengths: no term, terms being sequences of characters.
Lengths == <<"docLengths">>

Store(h, address, object) == (address :> object) @@ h

\* new BM25Index(): its Map of lengths is a new object.
NewIndexOnHeap(h, owner) ==
  [heap |-> Store(h, <<owner, Lengths>>, <<>>),
   value |-> [k1 |-> K1Tenths, b |-> BHundredths, vocab |-> <<>>,
              docLengths |-> <<owner, Lengths>>, totalDocs |-> 0, totalDocLength |-> 0]]

\* const postings = this.vocab.get(term) ?? []; postings.push({docId, tf});
\* this.vocab.set(term, postings), for every entry of tfMap.
RECURSIVE PushPostings(_, _, _, _, _)
PushPostings(h, owner, vocab, docId, tfMap) ==
  IF Len(tfMap) = 0 THEN [heap |-> h, vocab |-> vocab]
  ELSE LET term == Head(tfMap)[1]
           pst == [docId |-> docId, tf |-> Head(tfMap)[2]]
       IN IF MapHas(vocab, term)
          THEN LET ref == MapGet(vocab, term, <<>>)
               IN PushPostings(Store(h, ref, Append(h[ref], pst)), owner, vocab,
                               docId, Tail(tfMap))
          ELSE PushPostings(Store(h, <<owner, term>>, <<pst>>), owner,
                            MapSet(vocab, term, <<owner, term>>), docId, Tail(tfMap))

\* addDocuments(docs) on the index whose objects are in the heap h.
RECURSIVE addDocumentsOnHeap(_, _, _, _)
addDocumentsOnHeap(h, owner, index, docs) ==
  IF Len(docs) = 0 THEN [heap |-> h, value |-> index]
  ELSE LET doc == Head(docs)
           tokens == tokenize(doc.text)
           h1 == Store(h, index.docLengths, MapSet(h[index.docLengths], doc.id, Len(tokens)))
           pushed == PushPostings(h1, owner, index.vocab, doc.id, TfMap(tokens, <<>>))
       IN addDocumentsOnHeap(pushed.heap, owner,
                             [index EXCEPT !.totalDocs = index.totalDocs + 1,
                                           !.totalDocLength = index.totalDocLength + Len(tokens),
                                           !.vocab = pushed.vocab],
                             Tail(docs))

\* entries.map(([term, postings]) => [term, postings.map(p => ({...}))]): a
\* new array of new posting objects for every entry.
RECURSIVE CopyPostings(_, _, _, _)
CopyPostings(h, owner, entries, copied) ==
  IF Len(entries) = 0 THEN [heap |-> h, vocab |-> copied]
  ELSE LET term == Head(entries)[1]
       IN CopyPostings(Store(h, <<owner, term>>, h[Head(entries)[2]]), owner, Tail(entries),
                       Append(copied, <<term, <<owner, term>>>>))

\* Mutant of serializeOnHeap: the posting arrays of the index are returned
\* themselves, [...this.vocab.entries()].
serializeOnHeapSharing(h, owner, index) ==
  [heap |-> Store(h, <<owner, Lengths>>, h[index.docLengths]),
   value |-> [k1 |-> index.k1, b |-> index.b, totalDocs |-> index.totalDocs,
              totalDocLength |-> index.totalDocLength,
              docLengths |-> <<owner, Lengths>>, vocab |-> index.vocab]]

\* serialize(): [...this.docLengths.entries()] is a new array, and so is
\* every posting list.
serializeOnHeap(h, owner, index) ==
  LET h1 == Store(h, <<owner, Lengths>>, h[index.docLengths])
      copy == CopyPostings(h1, owner, index.vocab, <<>>)
  IN [heap |-> copy.heap,
      value |-> [k1 |-> index.k1, b |-> index.b, totalDocs |-> index.totalDocs,
                 totalDocLength |-> index.totalDocLength,
                 docLengths |-> <<owner, Lengths>>, vocab |-> copy.vocab]]

\* BM25Index.fromJSON(data): new Map(data.docLengths) and a new Map of new
\* posting arrays.
fromJSONOnHeap(h, owner, data) ==
  LET h1 == Store(h, <<owner, Lengths>>, MapFromEntries(h[data.docLengths]))
      copy == CopyPostings(h1, owner, data.vocab, <<>>)
  IN [heap |-> copy.heap,
      value |-> [k1 |-> data.k1, b |-> data.b, totalDocs |-> data.totalDocs,
                 totalDocLength |-> data.totalDocLength,
                 docLengths |-> <<owner, Lengths>>, vocab |-> MapFromEntries(copy.vocab)]]

\* What an index or a snapshot on the heap h holds: its fields with every
\* address replaced by the object at it.
ValueOnHeap(h, x) ==
  [k1 |-> x.k1, b |-> x.b, totalDocs |-> x.totalDocs, totalDocLength |-> x.totalDocLength,
   docLengths |-> h[x.docLengths],
   vocab |-> [i \in 1..Len(x.vocab) |-> <<x.vocab[i][1], h[x.vocab[i][2]]>>]]

(***************************************************************************)
(* Reciprocal rank fusion (handleSearch, hybrid mode). A fused score is a   *)
(* sum of reciprocals, kept as an exact fraction <<numerator, denominator>>.*)
(***************************************************************************)
kRRF == 60

FracAdd(f, g) == <<f[1] * g[2] + g[1] * f[2], f[2] * g[2]>>

FracLess(f, g) == f[1] * g[2] < g[1] * f[2]

FracEq(f, g) == f[1] * g[2] = g[1] * f[2]

\* Mutant of RrfTerm: ranks counted from zero, 1 / (kRRF + idx).
RrfTermZeroBased(idx) == <<1, kRRF + idx>>

\* 1 / (kRRF + idx + 1)
RrfTerm(idx) == <<1, kRRF + idx + 1>>

\* ids.forEach((id, idx) => fused.set(id, (fused.get(id) ?? 0) + 1 / (kRRF + idx + 1)))
RECURSIVE FuseRanking(_, _, _)
FuseRanking(fused, ids, idx) ==
  IF idx >= Len(ids) THEN fused
  ELSE LET id == ids[idx + 1]
           score == FracAdd(MapGet(fused, id, <<0, 1>>), RrfTerm(idx))
       IN IF MapHas(fused, id)
          THEN FuseRanking(MapSet(fused, id, score), ids, idx + 1)
          ELSE FuseRanking(Append(fused, <<id, score>>), ids, idx + 1)

\* The two loops: dense ranks first, then sparse ranks.
FuseDense(fused, denseIds) == FuseRanking(fused, denseIds, 0)

\* Mutant of FuseSparse: fused.set(r.docId, 1 / (kRRF + idx + 1)), the dense
\* contribution of the chunk overwritten.
FuseSparseOverwrite(fused, sparseIds) ==
  LET alone == FuseRanking(<<>>, sparseIds, 0)
  IN [i \in 1..Len(fused) |->
        IF MapHas(alone, fused[i][1]) THEN <<fused[i][1], MapGet(alone, fused[i][1], <<0, 1>>)>>
        ELSE fused[i]]
     \o SelectSeq(alone, LAMBDA e : ~MapHas(fused, e[1]))

FuseSparse(fused, sparseIds) == FuseRanking(fused, sparseIds, 0)

\* The comparator (a, b) => b[1] - a[1] on fused scores.
FusedGoesBefore(b, a) == FracLess(a[2], b[2])

RECURSIVE InsertFused(_, _)
InsertFused(sorted, x) ==
  IF Len(sorted) = 0 THEN <<x>>
  ELSE IF FusedGoesBefore(x, sorted[Len(sorted)])
  THEN Append(InsertFused(SubSeq(sorted, 1, Len(sorted) - 1), x), sorted[Len(sorted)])
  ELSE Append(sorted, x)

RECURSIVE SortFused(_)
SortFused(entries) ==
  IF Len(entries) = 0 THEN <<>>
  ELSE InsertFused(SortFused(SubSeq(entries, 1, Len(entries) - 1)), entries[Len(entries)])

\* ranked = [...fused.entries()].sort((a, b) => b[1] - a[1]).slice(0, topK)
FuseRanked(denseIds, sparseIds, topK) ==
  Take(SortFused(FuseSparse(FuseDense(<<>>, denseIds), sparseIds)), topK)

\* The sparse ranking of the hybrid search is bm25.search(query,
\* Math.max(topK * 4, 40)): the first max(4 * topK, 40) entries of the ranking
\* of all the chunks with a score (sparseIds), fused with the dense ranking.
HybridRanked(denseIds, sparseIds, topK) ==
  FuseRanked(denseIds, Take(sparseIds, Max(topK * 4, 40)), topK)

(***************************************************************************)
(* Dense embedding utilities of the worker. A vector is a sequence of      *)
(* integers; an undefined vector and an empty one, which the worker never  *)
(* tells apart, are both <<>>. Cosine similarities are kept in thousandths.*)
(***************************************************************************)
NoVector == <<>>

CosineScale == 1000

\* Math.sqrt, rounded down to an integer (Newton's iteration from x).
RECURSIVE SqrtFrom(_, _)
SqrtFrom(n, x) ==
  LET y == (x + (n \div x)) \div 2
  IN IF y >= x THEN x ELSE SqrtFrom(n, y)

Sqrt(n) == IF n = 0 THEN 0 ELSE SqrtFrom(n, n)

RECURSIVE Dot(_, _)
Dot(a, b) == IF Len(a) = 0 THEN 0 ELSE a[1] * b[1] + Dot(Tail(a), Tail(b))

\* dot / (sqrt(na) * sqrt(nb) + 1e-8): 0 for a zero vector, else the quotient
\* rounded to the nearest thousandth (1e-8 is below that resolution).
cosineSimilarity(a, b) ==
  IF Len(a) = 0 \/ Len(b) = 0 THEN 0
  ELSE IF Len(a) # Len(b) THEN 0
  ELSE LET den == Sqrt(Dot(a, a) * Dot(b, b) * 10000)
       IN IF den = 0 THEN 0
          ELSE (2 * Dot(a, b) * 100 * CosineScale + den) \div (2 * den)

(***************************************************************************)
(* The feature extractor (self.__embedder) is outside the program. It is   *)
(* taken as a function of the text: one row of EmbedDim numbers per        *)
(* whitespace-delimited token (at least one row), returned either as one   *)
(* tensor [batch, seq, dim] for the whole input or as one tensor           *)
(* [seq, dim] per text; a call may also throw.                             *)
(***************************************************************************)
EmbedDim == 2

TokenRow(token) ==
  IF \E i \in 1..Len(token) : token[i] = "c" THEN <<6, 0>>
  ELSE IF \E i \in 1..Len(token) : token[i] = "d" THEN <<0, 6>>
  ELSE <<0, 0>>

RECURSIVE Flatten(_)
Flatten(rows) == IF Len(rows) = 0 THEN <<>> ELSE Head(rows) \o Flatten(Tail(rows))

TextRows(text) ==
  LET starts == TokenStarts(text)
      ends == TokenEnds(text)
  IN IF Len(starts) = 0 THEN <<<<0, 0>>>>
     ELSE [k \in 1..Len(starts) |-> TokenRow(Slice(text, starts[k], ends[k]))]

\* The rows of a text padded with zero rows to seq rows.
PaddedRows(text, seq) ==
  [k \in 1..seq |-> IF k <= Len(TextRows(text)) THEN TextRows(text)[k] ELSE <<0, 0>>]

MaxSeq(texts) ==
  CHOOSE n \in {Len(TextRows(texts[i])) : i \in 1..Len(texts)} :
    \A i \in 1..Len(texts) : Len(TextRows(texts[i])) <= n

EmbedOutcomes == {"throws", "tensor", "tensors"}

\* What embed(texts) resolves to under an outcome other than "throws".
Extract(texts, outcome) ==
  IF outcome = "tensor"
  THEN [data |-> Flatten([i \in 1..Len(texts) |-> Flatten(PaddedRows(texts[i], MaxSeq(texts)))]),
        dims |-> <<Len(texts), MaxSeq(texts), EmbedDim>>]
  ELSE [i \in 1..Len(texts) |->
          [data |-> Flatten(TextRows(texts[i])), dims |-> <<Len(TextRows(texts[i])), EmbedDim>>]]

\* Mean pooling of one tensor across its sequence dimension.
Pooled(t) ==
  LET seq == IF Len(t.dims) = 3 THEN t.dims[2] ELSE t.dims[1]
      dim == IF Len(t.dims) = 3 THEN t.dims[3] ELSE t.dims[2]
      Column(j, n) == [i \in 1..n |-> t.data[(i - 1) * dim + j]]
      Sum(col) == Dot(col, [i \in 1..Len(col) |-> 1])
  IN [j \in 1..dim |-> Sum(Column(j, seq)) \div seq]

\* The vectors embedTexts returns when embed does not throw: one per tensor.
embedTexts(texts, outcome) ==
  LET outputs == Extract(texts, outcome)
      out == IF outcome = "tensor" THEN <<outputs>> ELSE outputs
  IN [k \in 1..Len(out) |-> Pooled(out[k])]

\* batchVecs[j], undefined beyond the end of the array.
VectorAt(vecs, j) == IF j <= Len(vecs) THEN vecs[j] ELSE NoVector

(***************************************************************************)
(* The worker's handlers, as functions of the module state they read.      *)
(***************************************************************************)
\* for (const c of chunks) chunkIdToChunk.set(c.id, c)
RECURSIVE SetChunks(_, _)
SetChunks(map, chunks) ==
  IF Len(chunks) = 0 THEN map
  ELSE SetChunks(MapSet(map, Head(chunks).id, Head(chunks)), Tail(chunks))

\* Mutant of buildBM25: the index is rebuilt from the chunks of this ingest.
buildBM25Fresh(index, chunks) ==
  addDocuments(NewIndex, [i \in 1..Len(chunks) |-> [id |-> chunks[i].id, text |-> chunks[i].text]])

buildBM25(index, chunks) ==
  addDocuments(index, [i \in 1..Len(chunks) |-> [id |-> chunks[i].id, text |-> chunks[i].text]])

\* chunkIdToChunk.get(id)! for an id that is not a key.
UndefinedChunk == [undefined |-> TRUE]

\* ranked.map(([id, score]) => ({ chunk: chunkIdToChunk.get(id)!, score }))
WithChunks(map, ranked) ==
  [i \in 1..Len(ranked) |->
     [chunk |-> MapGet(map, ranked[i][1], UndefinedChunk), score |-> ranked[i][2]]]

SparseResults(index, map, query, topK) ==
  LET found == search(index, query, topK)
  IN WithChunks(map, [i \in 1..Len(found) |-> <<found[i].docId, found[i].score>>])

\* The (id, cosine) pairs of the stored vectors, invalid embeddings skipped.
CosineScores(embeddings, qVec) ==
  LET valid == SelectSeq(embeddings, LAMBDA en : Len(en[2]) # 0)
  IN [i \in 1..Len(valid) |-> <<valid[i][1], cosineSimilarity(qVec, valid[i][2])>>]

DenseResults(embeddings, map, qVecArray, topK) ==
  IF Len(qVecArray) = 0 THEN <<>>
  ELSE IF Len(qVecArray[1]) = 0 THEN <<>>
  ELSE WithChunks(map, Take(SortByScore(CosineScores(embeddings, qVecArray[1])), topK))

HybridResults(index, embeddings, map, query, qVecArray, topK) ==
  IF Len(qVecArray) = 0 THEN <<>>
  ELSE IF Len(qVecArray[1]) = 0 THEN <<>>
  ELSE LET sparse == search(index, query, Max(topK * 4, 40))
           denseSorted == SortByScore(CosineScores(embeddings, qVecArray[1]))
       IN WithChunks(map, FuseRanked([i \in 1..Len(denseSorted) |-> denseSorted[i][1]],
                                     [i \in 1..Len(sparse) |-> sparse[i].docId], topK))

\* The sparse map of an exported chunk: term -> tf in thousandths, for the
\* terms with tf > 0.01.
generateSparseTerms(text) ==
  LET tokens == tokenize(text)
      termCounts == TfMap(tokens, <<>>)
      totalTokens == Len(tokens)
      kept == SelectSeq(termCounts, LAMBDA en : 100 * en[2] > totalTokens)
  IN [i \in 1..Len(kept) |->
        <<kept[i][1], (2000 * kept[i][2] + totalTokens) \div (2 * totalTokens)>>]

\* `c_${String(index + 1).padStart(6, '0')}`
ExportId(index) ==
  LET n == index + 1
  IN "c_" \o (IF n < 10 THEN "00000" ELSE IF n < 100 THEN "0000" ELSE "000") \o ToString(n)

\* [...new Set(chunks.map(c => c.docId))]
RECURSIVE Unique(_)
Unique(seq) ==
  IF Len(seq) = 0 THEN <<>>
  ELSE LET init == Unique(SubSeq(seq, 1, Len(seq) - 1))
       IN IF \E i \in 1..Len(init) : init[i] = seq[Len(seq)] THEN init
          ELSE Append(init, seq[Len(seq)])

\* One record of chunks.json, or <<>> for a chunk left out (no embedding).
ExportChunk(kind, embeddings, chunk, index) ==
  LET embedding == MapGet(embeddings, chunk.id, NoVector)
  IN IF kind = "chunks"
     THEN <<[id |-> ExportId(index), text |-> chunk.text, doc_id |-> chunk.docId,
             start |-> chunk.charStart, end |-> chunk.charEnd]>>
     ELSE IF kind = "sparse"
     THEN <<[id |-> ExportId(index), text |-> chunk.text,
             sparse |-> generateSparseTerms(chunk.text)]>>
     ELSE IF Len(embedding) = 0 THEN <<>>
     ELSE IF kind = "dense"
     THEN <<[id |-> ExportId(index), text |-> chunk.text, dense |-> embedding]>>
     ELSE <<[id |-> ExportId(index), text |-> chunk.text, dense |-> embedding,
             sparse |-> generateSparseTerms(chunk.text)]>>

RECURSIVE ExportChunks(_, _, _, _)
ExportChunks(kind, embeddings, chunks, index) ==
  IF index >= Len(chunks) THEN <<>>
  ELSE ExportChunk(kind, embeddings, chunks[index + 1], index)
         \o ExportChunks(kind, embeddings, chunks, index + 1)

\* The 'exported' message of handleExport: the file name without its date,
\* and the two files of the archive.
Exported(kind, map, embeddings) ==
  LET chunks == [i \in 1..Len(map) |-> map[i][2]]
      exportChunks == ExportChunks(kind, embeddings, chunks, 0)
  IN IF Len(chunks) = 0
     THEN [type |-> "exported", filename |-> "error.json", error |-> "No chunks to export"]
     ELSE [type |-> "exported", filename |-> "ragpack-" \o kind,
           metadata |-> [export_type |-> kind,
                         source |-> Unique([i \in 1..Len(chunks) |-> chunks[i].docId]),
                         total_chunks |-> Len(exportChunks)],
           chunks |-> exportChunks]

(***************************************************************************)
(* State.                                                                  *)
(*   cText, cMethod, cOut: a document, the chunking method applied to it   *)
(*   and the chunk list returned (the chunkers as pure functions).         *)
(*   bm25: the BM25Index. added: the documents handed to addDocuments so   *)
(*   far (history). restored: the index rebuilt from the serialized form   *)
(*   of bm25 and whether documents were added to it since, <<>> while      *)
(*   there is none. lastSearch: what the last search returned, <<>> before *)
(*   any search and after a change of an index.                            *)
(*   fSparse, fDense, fTopK: a sparse ranking, a dense ranking (chunk ids, *)
(*   best first) and a topK; fRanked: what the fusion returns for them,    *)
(*   fSwapped: what it returns with the two rankings exchanged.            *)
(*   chunkIdToChunk, embeddingsByChunkId: the worker's two Maps;           *)
(*   embedderReady: "null", or the state of the promise ("pending",        *)
(*   "resolved", "rejected"); tasks: the handler calls suspended at an     *)
(*   await, oldest first; posted: the messages the latest step of the      *)
(*   worker posted to the page, in order; requests: the number of requests *)
(*   received.                                                             *)
(***************************************************************************)
VARIABLES cText, cMethod, cOut, bm25, added, restored, lastSearch,
          fSparse, fDense, fTopK, fRanked, fSwapped,
          chunkIdToChunk, embeddingsByChunkId, embedderReady, tasks, posted, requests

chunkVars == <<cText, cMethod, cOut>>

indexVars == <<bm25, added, restored, lastSearch>>

fuseVars == <<fSparse, fDense, fTopK, fRanked, fSwapped>>

workerVars == <<chunkIdToChunk, embeddingsByChunkId, embedderReady, tasks, posted, requests>>

\* heap: the objects the indexes and snapshots of the snapshot scenario hold;
\* live: the index documents are added to; dumps: what serialize() returned;
\* rebuilt: the indexes fromJSON returned.
VARIABLES heap, live, dumps, rebuilt

snapVars == <<heap, live, dumps, rebuilt>>

\* tText: a text; tTokens, tSparse: what tokenize and generateSparseTerms
\* returned for it; tDone: the functions called on it so far.
VARIABLES tText, tTokens, tSparse, tDone

tokenVars == <<tText, tTokens, tSparse, tDone>>

\* The state of the page (Home): uiMode is its `mode`, currentlyProcessing its
\* state and ref of that name ("null" for null), reading the handleIngest
\* call waiting for the files, toWorker and toPage the messages in flight,
\* clicks the number of user events so far.
VARIABLES uiMode, embedderState, embeddingPlanned, embeddingBuilt, currentlyProcessing,
          completedIngestions, isIngesting, reading, toWorker, toPage, clicks

pageVars == <<uiMode, embedderState, embeddingPlanned, embeddingBuilt, currentlyProcessing,
              completedIngestions, isIngesting, reading, toWorker, toPage, clicks>>

vars == <<hasSegmenter, snapVars, tokenVars, chunkVars, indexVars, fuseVars, workerVars,
          pageVars>>

\* No method applied yet.
NoMethod == [kind |-> "none"]

RECURSIVE TextsOfLen(_)
TextsOfLen(n) ==
  IF n = 0 THEN {<<>>}
  ELSE {Append(t, c) : t \in TextsOfLen(n - 1), c \in Alphabet}

Texts == UNION {TextsOfLen(n) : n \in 0..MaxLen}

DocPath == "d"

\* The variables a specification does not use keep these values.
IdleChunk == cText = <<>> /\ cMethod = NoMethod /\ cOut = <<>>

IdleIndex == bm25 = NewIndex /\ added = <<>> /\ restored = <<>> /\ lastSearch = <<>>

IdleTokenize == tText = <<>> /\ tTokens = <<>> /\ tSparse = <<>> /\ tDone = {}

IdlePage ==
  /\ uiMode = "sparse"
  /\ embedderState = "idle"
  /\ embeddingPlanned = 0
  /\ embeddingBuilt = 0
  /\ currentlyProcessing = "null"
  /\ completedIngestions = {}
  /\ isIngesting = FALSE
  /\ reading = <<>>
  /\ toWorker = <<>>
  /\ toPage = <<>>
  /\ clicks = 0

IdleSnapshot ==
  /\ heap = NewIndexOnHeap(<<>>, "live").heap
  /\ live = NewIndexOnHeap(<<>>, "live").value
  /\ dumps = <<>>
  /\ rebuilt = <<>>

\* No fusion called yet.
NotFused == 0 - 1

IdleFuse ==
  fSparse = <<>> /\ fDense = <<>> /\ fTopK = NotFused /\ fRanked = <<>> /\ fSwapped = <<>>

\* The worker module just loaded.
IdleWorker ==
  /\ chunkIdToChunk = <<>>
  /\ embeddingsByChunkId = <<>>
  /\ embedderReady = "null"
  /\ tasks = <<>>
  /\ posted = <<>>
  /\ requests = 0

(***************************************************************************)
(* The chunkers on every document of the bounded alphabet.                 *)
(***************************************************************************)
\* A document of 25 one-letter tokens, and the window of 10 tokens with an
\* overlap of 3 it is chunked with.
LongText == [i \in 1..49 |-> IF i % 2 = 1 THEN "a" ELSE " "]

TenThree == [kind |-> "sliding_tokens", maxTokens |-> 10, overlapTokens |-> 3]

InitChunk ==
  /\ hasSegmenter \in BOOLEAN
  /\ cText \in Texts \cup {LongText}
  /\ cMethod = NoMethod
  /\ cOut = <<>>
  /\ IdleIndex
  /\ IdleFuse
  /\ IdleWorker
  /\ IdleSnapshot
  /\ IdleTokenize
  /\ IdlePage

\* One call parseAndChunk([{path, text}], method).
ChunkCall ==
  /\ cMethod = NoMethod
  /\ \E method \in Methods \cup {TenThree} :
       /\ cMethod' = method
       /\ cOut' = parseAndChunk(<<[path |-> DocPath, text |-> cText]>>, method)
  /\ UNCHANGED <<hasSegmenter, pageVars, snapVars, tokenVars, cText, indexVars, fuseVars, workerVars>>

NextChunk == ChunkCall

SpecChunk == InitChunk /\ [][NextChunk]_vars

(***************************************************************************)
(* The BM25Index class: addDocuments, search, serialize and fromJSON.      *)
(***************************************************************************)
CatMat == <<"t", "h", "e", " ", "c", "a", "t", " ", "s", "a", "t", " ", "o", "n", " ",
            "t", "h", "e", " ", "m", "a", "t">>

DogLog == <<"t", "h", "e", " ", "d", "o", "g", " ", "s", "a", "t", " ", "o", "n", " ",
            "t", "h", "e", " ", "l", "o", "g">>

CatCat == <<"C", "a", "t", "!", " ", "c", "a", "t", ".">>

The == <<"t", "h", "e">>

\* The documents handed to addDocuments: the two of the scenario, one with a
\* repeated term, one without any token, and one id met with two texts.
IndexDocs ==
  {[id |-> "doc1:0-22", text |-> CatMat], [id |-> "doc2:0-22", text |-> DogLog],
   [id |-> "doc3:0-9", text |-> CatCat], [id |-> "doc4:0-3", text |-> The],
   [id |-> "doc1:0-22", text |-> DogLog]}

Batches == UNION {[1..n -> IndexDocs] : n \in 1..MaxBatch}

Queries ==
  {<<"c", "a", "t">>, <<"C", "a", "t", " ", "s", "a", "t">>, <<"t", "h", "e">>,
   <<"d", "o", "g", ",", "m", "a", "t", " ", "d", "o", "g">>}

InitIndex ==
  /\ hasSegmenter = TRUE
  /\ IdleChunk
  /\ bm25 = NewIndex
  /\ added = <<>>
  /\ restored = <<>>
  /\ lastSearch = <<>>
  /\ IdleFuse
  /\ IdleWorker
  /\ IdleSnapshot
  /\ IdleTokenize
  /\ IdlePage

\* index.addDocuments(docs), and the same call on the rebuilt index.
IndexAdd ==
  /\ \E docs \in Batches :
       /\ bm25.totalDocs + Len(docs) <= MaxIndexDocs
       /\ bm25' = addDocuments(bm25, docs)
       /\ added' = added \o docs
       /\ restored' = [i \in 1..Len(restored) |->
                         [index |-> addDocuments(restored[i].index, docs),
                          grown |-> TRUE]]
  /\ lastSearch' = <<>>
  /\ UNCHANGED <<hasSegmenter, pageVars, snapVars, tokenVars, chunkVars, fuseVars, workerVars>>

\* restored = BM25Index.fromJSON(index.serialize())
IndexRoundTrip ==
  /\ restored' = <<[index |-> fromJSON(serialize(bm25)), grown |-> FALSE]>>
  /\ lastSearch' = <<>>
  /\ UNCHANGED <<hasSegmenter, pageVars, snapVars, tokenVars, chunkVars, fuseVars, workerVars, bm25, added>>

\* index.search(query, topK), and the same call on the rebuilt index; one
\* search per state of the indexes, since a search changes neither.
IndexSearch ==
  /\ lastSearch = <<>>
  /\ \E query \in Queries, topK \in 0..MaxTopK :
       lastSearch' = <<[query |-> query, topK |-> topK,
                        results |-> search(bm25, query, topK),
                        restoredResults |->
                          [i \in 1..Len(restored) |-> search(restored[i].index, query, topK)]]>>
  /\ UNCHANGED <<hasSegmenter, pageVars, snapVars, tokenVars, chunkVars, fuseVars, workerVars, bm25, added, restored>>

NextIndex == IndexAdd \/ IndexRoundTrip \/ IndexSearch

SpecIndex == InitIndex /\ [][NextIndex]_vars

(***************************************************************************)
(* Snapshots: documents are added to the live index and to rebuilt ones,   *)
(* with serialize() and fromJSON() calls in between.                       *)
(***************************************************************************)
\* The snapshots taken, the indexes rebuilt, and the documents of one index.
MaxDumps == 1

MaxRebuilt == 2

MaxSnapshotDocs == 2

\* The batches added: a document with three terms, one with the term "cat"
\* twice, and both together.
SnapshotBatches ==
  LET one == [id |-> "doc1:0-22", text |-> CatMat]
      three == [id |-> "doc3:0-9", text |-> CatCat]
  IN {<<one>>, <<three>>, <<one, three>>}

\* The batch added to a rebuilt index.
RebuiltBatches == {<<[id |-> "doc1:0-22", text |-> CatMat]>>}

InitSnapshot ==
  /\ hasSegmenter = TRUE
  /\ IdleChunk
  /\ IdleIndex
  /\ IdleFuse
  /\ IdleWorker
  /\ IdleSnapshot
  /\ IdleTokenize
  /\ IdlePage

\* index.addDocuments(docs) on the live index.
SnapshotAddLive ==
  /\ \E docs \in SnapshotBatches :
       /\ live.totalDocs + Len(docs) <= MaxSnapshotDocs
       /\ LET r == addDocumentsOnHeap(heap, "live", live, docs)
          IN heap' = r.heap /\ live' = r.value
  /\ UNCHANGED <<hasSegmenter, pageVars, tokenVars, dumps, rebuilt, chunkVars, indexVars, fuseVars, workerVars>>

\* rebuilt.addDocuments(docs) on an index fromJSON returned.
SnapshotAddRebuilt ==
  /\ \E k \in 1..Len(rebuilt), docs \in RebuiltBatches :
       /\ rebuilt[k].totalDocs + Len(docs) <= MaxSnapshotDocs
       /\ LET r == addDocumentsOnHeap(heap, "rebuilt" \o ToString(k), rebuilt[k], docs)
          IN heap' = r.heap /\ rebuilt' = [rebuilt EXCEPT ![k] = r.value]
  /\ UNCHANGED <<hasSegmenter, pageVars, tokenVars, live, dumps, chunkVars, indexVars, fuseVars, workerVars>>

\* const data = index.serialize()
SnapshotSerialize ==
  /\ Len(dumps) < MaxDumps
  /\ LET r == serializeOnHeap(heap, "data" \o ToString(Len(dumps) + 1), live)
     IN heap' = r.heap /\ dumps' = Append(dumps, r.value)
  /\ UNCHANGED <<hasSegmenter, pageVars, tokenVars, live, rebuilt, chunkVars, indexVars, fuseVars, workerVars>>

\* BM25Index.fromJSON(data)
SnapshotFromJSON ==
  /\ Len(rebuilt) < MaxRebuilt
  /\ \E d \in 1..Len(dumps) :
       LET r == fromJSONOnHeap(heap, "rebuilt" \o ToString(Len(rebuilt) + 1), dumps[d])
       IN heap' = r.heap /\ rebuilt' = Append(rebuilt, r.value)
  /\ UNCHANGED <<hasSegmenter, pageVars, tokenVars, live, dumps, chunkVars, indexVars, fuseVars, workerVars>>

NextSnapshot ==
  \/ SnapshotAddLive
  \/ SnapshotAddRebuilt
  \/ SnapshotSerialize
  \/ SnapshotFromJSON

SpecSnapshot == InitSnapshot /\ [][NextSnapshot]_vars

(***************************************************************************)
(* tokenize and generateSparseTerms as functions of a text.                *)
(***************************************************************************)
MaxTextLen == 4

\* Letters of both cases, a digit, white space and punctuation; "a" and "at"
\* are stopwords.
TokenizeAlphabet == {"a", "A", "t", "1", " ", "\n", "."}

RECURSIVE TokenizeTextsOfLen(_)
TokenizeTextsOfLen(n) ==
  IF n = 0 THEN {<<>>}
  ELSE {Append(t, c) : t \in TokenizeTextsOfLen(n - 1), c \in TokenizeAlphabet}

\* A chunk of 101 tokens: "dog" once, then "cat" a hundred times.
HundredCats ==
  [i \in 1..403 |->
     IF i % 4 = 0 THEN " "
     ELSE IF i <= 3 THEN <<"d", "o", "g">>[i]
     ELSE <<"c", "a", "t">>[i % 4]]

TokenizeTexts ==
  UNION {TokenizeTextsOfLen(n) : n \in 0..MaxTextLen} \cup {HundredCats, CatMat, CatCat}

InitTokenize ==
  /\ hasSegmenter = TRUE
  /\ IdleChunk
  /\ IdleIndex
  /\ IdleFuse
  /\ IdleWorker
  /\ IdleSnapshot
  /\ IdlePage
  /\ tText \in TokenizeTexts
  /\ tTokens = <<>>
  /\ tSparse = <<>>
  /\ tDone = {}

\* tokenize(text)
TokenizeCall ==
  /\ "tokenize" \notin tDone
  /\ tTokens' = tokenize(tText)
  /\ tDone' = tDone \cup {"tokenize"}
  /\ UNCHANGED <<hasSegmenter, pageVars, snapVars, tText, tSparse, chunkVars, indexVars, fuseVars,
                 workerVars>>

\* generateSparseTerms(text)
SparseTermsCall ==
  /\ "generateSparseTerms" \notin tDone
  /\ tSparse' = generateSparseTerms(tText)
  /\ tDone' = tDone \cup {"generateSparseTerms"}
  /\ UNCHANGED <<hasSegmenter, pageVars, snapVars, tText, tTokens, chunkVars, indexVars, fuseVars,
                 workerVars>>

NextTokenize == TokenizeCall \/ SparseTermsCall

SpecTokenize == InitTokenize /\ [][NextTokenize]_vars

(***************************************************************************)
(* The rank fusion on every pair of bounded rankings.                      *)
(***************************************************************************)
RankIds == {"c1", "c2", "c3", "c4", "c5"}

\* The rankings of at most n chunk ids: no id twice, as the keys of a Map.
Rankings(n) ==
  UNION {{r \in [1..k -> RankIds] : \A i, j \in 1..k : i # j => r[i] # r[j]} :
           k \in 0..Min(n, Cardinality(RankIds))}

InitFuse ==
  /\ hasSegmenter = TRUE
  /\ IdleChunk
  /\ IdleIndex
  /\ fSparse \in Rankings(MaxSparseRank)
  /\ fDense \in Rankings(MaxDenseRank)
  /\ fTopK = NotFused
  /\ fRanked = <<>>
  /\ fSwapped = <<>>
  /\ IdleWorker
  /\ IdleSnapshot
  /\ IdleTokenize
  /\ IdlePage

\* The fusion of handleSearch on (dense, sparse), and on the two exchanged.
FuseCall ==
  /\ fTopK = NotFused
  /\ \E topK \in 0..MaxTopK :
       /\ fTopK' = topK
       /\ fRanked' = FuseRanked(fDense, fSparse, topK)
       /\ fSwapped' = FuseRanked(fSparse, fDense, topK)
  /\ UNCHANGED <<hasSegmenter, pageVars, snapVars, tokenVars, chunkVars, indexVars, workerVars, fSparse, fDense>>

NextFuse == FuseCall

SpecFuse == InitFuse /\ [][NextFuse]_vars

(***************************************************************************)
(* The hybrid search from its two complete rankings: here fSparse is the   *)
(* ranking of every chunk the index gives a score, of which the search     *)
(* keeps the first max(4 * topK, 40), and fDense the ranking of every      *)
(* chunk with a vector.                                                    *)
(***************************************************************************)
\* A query that 41 chunks match, and the two of them that have a vector: the
\* last and the last but one of the sparse ranking.
LongSparse == [i \in 1..41 |-> "c" \o ToString(i)]

LongDense == <<"c41", "c40">>

InitHybrid ==
  /\ hasSegmenter = TRUE
  /\ IdleChunk
  /\ IdleIndex
  /\ \/ fSparse \in Rankings(MaxSparseRank) /\ fDense \in Rankings(MaxSparseRank)
     \/ fSparse = LongSparse /\ fDense = LongDense
  /\ fTopK = NotFused
  /\ fRanked = <<>>
  /\ fSwapped = <<>>
  /\ IdleWorker
  /\ IdleSnapshot
  /\ IdleTokenize
  /\ IdlePage

\* handleSearch(query, topK, "hybrid") from the dense scores to the ranked list.
HybridCall ==
  /\ fTopK = NotFused
  /\ \E topK \in 0..MaxTopK :
       /\ fTopK' = topK
       /\ fRanked' = HybridRanked(fDense, fSparse, topK)
  /\ UNCHANGED <<hasSegmenter, pageVars, snapVars, tokenVars, chunkVars, indexVars, workerVars, fSparse, fDense,
                 fSwapped>>

NextHybrid == HybridCall

SpecHybrid == InitHybrid /\ [][NextHybrid]_vars

(***************************************************************************)
(* The worker: requests arrive one at a time (self.onmessage); a handler   *)
(* runs without interruption up to its next await and is resumed later.    *)
(***************************************************************************)
CatDog == <<"c", "a", "t", " ", "d", "o", "g">>

TheCat == <<"t", "h", "e", " ", "c", "a", "t">>

Blank == <<" ">>

\* Eleven tokens: one more than a batch of embeddings holds.
Eleven ==
  <<"c", " ", "d", " ", "c", " ", "d", " ", "c", " ", "d", " ", "c", " ", "d", " ",
    "c", " ", "d", " ", "c">>

FileSets ==
  {<<[path |-> "a", text |-> CatDog], [path |-> "b", text |-> TheCat]>>,
   <<[path |-> "c", text |-> Blank]>>}

WorkerMethods == {[kind |-> "fixed_tokens", maxTokens |-> 1]}

Retrievals == {"sparse", "dense", "hybrid"}

WorkerQueries == {<<"d", "o", "g", " ", "c", "a", "t">>}

ExportKinds == {"sparse", "dense", "hybrid", "chunks"}

\* The ingest requests: every file set in every retrieval mode, the long
\* file with dense retrieval, and file b with another text (sparse).
IngestRequests ==
  (FileSets \X WorkerMethods \X Retrievals)
    \cup {<<<<[path |-> "l", text |-> Eleven]>>, [kind |-> "fixed_tokens", maxTokens |-> 1],
            "dense">>,
          <<<<[path |-> "b", text |-> CatDog]>>, [kind |-> "fixed_tokens", maxTokens |-> 1],
            "sparse">>}

batchSize == 10

\* A step that posts a single message.
PostOne(message) == <<message>>

RemoveAt(seq, k) == SubSeq(seq, 1, k - 1) \o SubSeq(seq, k + 1, Len(seq))

Settled == embedderReady \in {"resolved", "rejected"}

\* A continuation of an await on the settled embedderReady is a microtask:
\* it runs before the worker takes any other event.
MicrotaskPending == Settled /\ \E k \in 1..Len(tasks) : tasks[k].pc = "ensureEmbedder"

InitWorker ==
  /\ hasSegmenter = TRUE
  /\ IdleChunk
  /\ IdleIndex
  /\ IdleFuse
  /\ IdleWorker
  /\ IdleSnapshot
  /\ IdleTokenize
  /\ IdlePage

Ingested(files, chunks) ==
  [type |-> "ingested", stats |-> [docs |-> Len(files), chunks |-> Len(chunks)]]

\* Mutant of Ingest: a hybrid ingest leaves the index to the part of the
\* handler after `await ensureEmbedder()`.
IngestIndexingLater ==
  /\ requests < MaxRequests
  /\ ~MicrotaskPending
  /\ \E request \in IngestRequests :
       LET files == request[1]
           method == request[2]
           retrieval == request[3]
           chunks == parseAndChunk(files, method)
       IN /\ chunkIdToChunk' = SetChunks(chunkIdToChunk, chunks)
          /\ bm25' = IF retrieval = "sparse" THEN buildBM25(bm25, chunks) ELSE bm25
          /\ IF retrieval \in {"dense", "hybrid"}
             THEN /\ posted' = (IF embedderReady = "null"
                                          THEN <<[type |-> "embedderLoading"]>> ELSE <<>>)
                  /\ embedderReady' = IF embedderReady = "null" THEN "pending" ELSE embedderReady
                  /\ tasks' = Append(tasks, [kind |-> "ingest", pc |-> "ensureEmbedder",
                                             files |-> files, chunks |-> chunks,
                                             retrieval |-> retrieval, i |-> 0])
             ELSE /\ posted' = PostOne(Ingested(files, chunks))
                  /\ UNCHANGED <<embedderReady, tasks>>
  /\ requests' = requests + 1
  /\ UNCHANGED <<hasSegmenter, pageVars, snapVars, tokenVars, chunkVars, fuseVars, added, restored, lastSearch,
                 embeddingsByChunkId>>

\* handleIngest up to `await ensureEmbedder()`, or to its end when sparse.
Ingest ==
  /\ requests < MaxRequests
  /\ ~MicrotaskPending
  /\ \E request \in IngestRequests :
       LET files == request[1]
           method == request[2]
           retrieval == request[3]
           chunks == parseAndChunk(files, method)
       IN /\ chunkIdToChunk' = SetChunks(chunkIdToChunk, chunks)
          /\ bm25' = IF retrieval \in {"sparse", "hybrid"} THEN buildBM25(bm25, chunks) ELSE bm25
          /\ IF retrieval \in {"dense", "hybrid"}
             THEN /\ posted' = (IF embedderReady = "null"
                                          THEN <<[type |-> "embedderLoading"]>> ELSE <<>>)
                  /\ embedderReady' = IF embedderReady = "null" THEN "pending" ELSE embedderReady
                  /\ tasks' = Append(tasks, [kind |-> "ingest", pc |-> "ensureEmbedder",
                                             files |-> files, chunks |-> chunks,
                                             retrieval |-> retrieval, i |-> 0])
             ELSE /\ posted' = PostOne(Ingested(files, chunks))
                  /\ UNCHANGED <<embedderReady, tasks>>
  /\ requests' = requests + 1
  /\ UNCHANGED <<hasSegmenter, pageVars, snapVars, tokenVars, chunkVars, fuseVars, added, restored, lastSearch,
                 embeddingsByChunkId>>

\* The model load inside ensureEmbedder ends: the promise resolves or rejects.
EmbedderSettle ==
  /\ embedderReady = "pending"
  /\ embedderReady' \in {"resolved", "rejected"}
  /\ UNCHANGED <<hasSegmenter, pageVars, snapVars, tokenVars, chunkVars, indexVars, fuseVars, chunkIdToChunk,
                 embeddingsByChunkId, tasks, requests>>
  /\ posted' = <<>>

\* The oldest call waiting on embedderReady.
FirstWaiting ==
  CHOOSE k \in 1..Len(tasks) :
    /\ tasks[k].pc = "ensureEmbedder"
    /\ \A j \in 1..(k - 1) : tasks[j].pc # "ensureEmbedder"

\* handleIngest from `await ensureEmbedder()` on, taking the chunks of the
\* request out of the chunk map again when the model load was rejected.
IngestEmbedderRollingBack ==
  /\ MicrotaskPending
  /\ tasks[FirstWaiting].kind = "ingest"
  /\ LET k == FirstWaiting
         t == tasks[k]
         ids == {t.chunks[j].id : j \in 1..Len(t.chunks)}
     IN IF embedderReady = "resolved"
        THEN /\ UNCHANGED chunkIdToChunk
             /\ IF Len(t.chunks) = 0
                THEN /\ posted' = PostOne([type |-> "embedderReady"])
                     /\ tasks' = RemoveAt(tasks, k)
                ELSE /\ posted' = <<[type |-> "embedderReady"],
                                    [type |-> "embeddingStarted", total |-> Len(t.chunks)]>>
                     /\ tasks' = [tasks EXCEPT ![k].pc = "embedTexts"]
        ELSE /\ posted' = <<[type |-> "embedderFailed"], Ingested(t.files, t.chunks)>>
             /\ tasks' = RemoveAt(tasks, k)
             /\ chunkIdToChunk' = SelectSeq(chunkIdToChunk, LAMBDA e : e[1] \notin ids)
  /\ UNCHANGED <<hasSegmenter, pageVars, snapVars, tokenVars, chunkVars, indexVars, fuseVars,
                 embeddingsByChunkId, embedderReady, requests>>

\* handleIngest from `await ensureEmbedder()` to the first embedTexts call.
IngestEmbedder ==
  /\ MicrotaskPending
  /\ tasks[FirstWaiting].kind = "ingest"
  /\ LET k == FirstWaiting
         t == tasks[k]
     IN IF embedderReady = "resolved"
        THEN IF Len(t.chunks) = 0
             THEN /\ posted' = PostOne([type |-> "embedderReady"])
                  /\ tasks' = RemoveAt(tasks, k)
             ELSE /\ posted' = <<[type |-> "embedderReady"],
                                           [type |-> "embeddingStarted", total |-> Len(t.chunks)]>>
                  /\ tasks' = [tasks EXCEPT ![k].pc = "embedTexts"]
        ELSE /\ posted' = <<[type |-> "embedderFailed"], Ingested(t.files, t.chunks)>>
             /\ tasks' = RemoveAt(tasks, k)
  /\ UNCHANGED <<hasSegmenter, pageVars, snapVars, tokenVars, chunkVars, indexVars, fuseVars, chunkIdToChunk,
                 embeddingsByChunkId, embedderReady, requests>>

\* embeddingsByChunkId.set(batch[j].id, batchVecs[j]) for every j
RECURSIVE SetVectors(_, _, _, _)
SetVectors(embeddings, batch, batchVecs, j) ==
  IF j > Len(batch) THEN embeddings
  ELSE SetVectors(MapSet(embeddings, batch[j].id, VectorAt(batchVecs, j)), batch, batchVecs, j + 1)

\* handleIngest from `await embedTexts(batchTexts)` to its next await or end.
IngestBatch ==
  /\ ~MicrotaskPending
  /\ \E k \in 1..Len(tasks), outcome \in EmbedOutcomes :
       /\ tasks[k].kind = "ingest"
       /\ tasks[k].pc = "embedTexts"
       /\ LET t == tasks[k]
              batch == SubSeq(t.chunks, t.i + 1, Min(t.i + batchSize, Len(t.chunks)))
              batchTexts == [j \in 1..Len(batch) |-> batch[j].text]
              more == t.i + batchSize < Len(t.chunks)
          IN IF outcome = "throws"
             THEN /\ UNCHANGED embeddingsByChunkId
                  /\ IF more
                     THEN /\ tasks' = [tasks EXCEPT ![k].i = t.i + batchSize]
                          /\ posted' = <<>>
                     ELSE /\ tasks' = RemoveAt(tasks, k)
                          /\ posted' = PostOne(Ingested(t.files, t.chunks))
             ELSE /\ embeddingsByChunkId' =
                       SetVectors(embeddingsByChunkId, batch, embedTexts(batchTexts, outcome), 1)
                  /\ IF more
                     THEN /\ tasks' = [tasks EXCEPT ![k].pc = "setTimeout"]
                          /\ posted' = PostOne([type |-> "embeddingsBuilt",
                                                       count |-> Len(batch)])
                     ELSE /\ tasks' = RemoveAt(tasks, k)
                          /\ posted' = <<[type |-> "embeddingsBuilt",
                                                    count |-> Len(batch)],
                                                   Ingested(t.files, t.chunks)>>
  /\ UNCHANGED <<hasSegmenter, pageVars, snapVars, tokenVars, chunkVars, indexVars, fuseVars, chunkIdToChunk,
                 embedderReady, requests>>

\* The 50 ms pause between two batches ends: the next embedTexts call.
IngestDelay ==
  /\ ~MicrotaskPending
  /\ \E k \in 1..Len(tasks) :
       /\ tasks[k].kind = "ingest"
       /\ tasks[k].pc = "setTimeout"
       /\ tasks' = [tasks EXCEPT ![k].pc = "embedTexts", ![k].i = tasks[k].i + batchSize]
  /\ UNCHANGED <<hasSegmenter, pageVars, snapVars, tokenVars, chunkVars, indexVars, fuseVars, chunkIdToChunk,
                 embeddingsByChunkId, embedderReady, requests>>
  /\ posted' = <<>>

\* handleSearch: to its end in sparse mode, else up to `await ensureEmbedder()`.
Search ==
  /\ requests < MaxRequests
  /\ ~MicrotaskPending
  /\ \E query \in WorkerQueries, topK \in 1..MaxTopK, mode \in Retrievals :
       IF mode = "sparse"
       THEN /\ posted' = PostOne([type |-> "searchResults",
                                         results |-> SparseResults(bm25, chunkIdToChunk,
                                                                   query, topK)])
            /\ UNCHANGED <<embedderReady, tasks>>
       ELSE /\ embedderReady' = IF embedderReady = "null" THEN "pending" ELSE embedderReady
            /\ tasks' = Append(tasks, [kind |-> "search", pc |-> "ensureEmbedder",
                                       query |-> query, topK |-> topK, mode |-> mode])
            /\ posted' = <<>>
  /\ requests' = requests + 1
  /\ UNCHANGED <<hasSegmenter, pageVars, snapVars, tokenVars, chunkVars, indexVars, fuseVars, chunkIdToChunk,
                 embeddingsByChunkId>>

\* handleSearch from `await ensureEmbedder()`: the embedTexts call, or the
\* rejection thrown out of the handler, which posts nothing.
SearchEmbedder ==
  /\ MicrotaskPending
  /\ tasks[FirstWaiting].kind = "search"
  /\ tasks' = IF embedderReady = "resolved"
              THEN [tasks EXCEPT ![FirstWaiting].pc = "embedTexts"]
              ELSE RemoveAt(tasks, FirstWaiting)
  /\ UNCHANGED <<hasSegmenter, pageVars, snapVars, tokenVars, chunkVars, indexVars, fuseVars, chunkIdToChunk,
                 embeddingsByChunkId, embedderReady, requests>>
  /\ posted' = <<>>

\* The searchResults message of a dense or hybrid search.
SearchResults(t, qVecArray) ==
  [type |-> "searchResults",
   results |-> IF t.mode = "dense"
               THEN DenseResults(embeddingsByChunkId, chunkIdToChunk, qVecArray, t.topK)
               ELSE HybridResults(bm25, embeddingsByChunkId, chunkIdToChunk, t.query,
                                  qVecArray, t.topK)]

\* Mutant of SearchEmbedded: the query vector is kept in embeddingsByChunkId.
SearchEmbeddedKeepingQuery ==
  /\ ~MicrotaskPending
  /\ \E k \in 1..Len(tasks), outcome \in EmbedOutcomes :
       /\ tasks[k].kind = "search"
       /\ tasks[k].pc = "embedTexts"
       /\ tasks' = RemoveAt(tasks, k)
       /\ IF outcome = "throws"
          THEN posted' = <<>> /\ UNCHANGED embeddingsByChunkId
          ELSE /\ posted' = PostOne(SearchResults(tasks[k],
                                                         embedTexts(<<tasks[k].query>>, outcome)))
               /\ embeddingsByChunkId' =
                    MapSet(embeddingsByChunkId, "query", embedTexts(<<tasks[k].query>>, outcome)[1])
  /\ UNCHANGED <<hasSegmenter, pageVars, snapVars, tokenVars, chunkVars, indexVars, fuseVars, chunkIdToChunk,
                 embedderReady, requests>>

\* handleSearch from `await embedTexts([query])` to its end.
SearchEmbedded ==
  /\ ~MicrotaskPending
  /\ \E k \in 1..Len(tasks), outcome \in EmbedOutcomes :
       /\ tasks[k].kind = "search"
       /\ tasks[k].pc = "embedTexts"
       /\ tasks' = RemoveAt(tasks, k)
       /\ IF outcome = "throws"
          THEN posted' = <<>>
          ELSE posted' = PostOne(SearchResults(tasks[k],
                                                      embedTexts(<<tasks[k].query>>, outcome)))
  /\ UNCHANGED <<hasSegmenter, pageVars, snapVars, tokenVars, chunkVars, indexVars, fuseVars, chunkIdToChunk,
                 embeddingsByChunkId, embedderReady, requests>>

\* handleExport: to its end without chunks, else up to `await zip.generateAsync`.
Export ==
  /\ requests < MaxRequests
  /\ ~MicrotaskPending
  /\ \E kind \in ExportKinds :
       IF Len(chunkIdToChunk) = 0
       THEN /\ posted' = PostOne(Exported(kind, chunkIdToChunk, embeddingsByChunkId))
            /\ UNCHANGED tasks
       ELSE /\ tasks' = Append(tasks, [kind |-> "export", pc |-> "generateAsync",
                                       message |-> Exported(kind, chunkIdToChunk,
                                                            embeddingsByChunkId)])
            /\ posted' = <<>>
  /\ requests' = requests + 1
  /\ UNCHANGED <<hasSegmenter, pageVars, snapVars, tokenVars, chunkVars, indexVars, fuseVars, chunkIdToChunk,
                 embeddingsByChunkId, embedderReady>>

\* handleExport from `await zip.generateAsync` to its end.
ExportZipped ==
  /\ ~MicrotaskPending
  /\ \E k \in 1..Len(tasks) :
       /\ tasks[k].kind = "export"
       /\ tasks' = RemoveAt(tasks, k)
       /\ posted' = PostOne(tasks[k].message)
  /\ UNCHANGED <<hasSegmenter, pageVars, snapVars, tokenVars, chunkVars, indexVars, fuseVars, chunkIdToChunk,
                 embeddingsByChunkId, embedderReady, requests>>

Init == InitWorker

Next ==
  \/ Ingest
  \/ EmbedderSettle
  \/ IngestEmbedder
  \/ IngestBatch
  \/ IngestDelay
  \/ Search
  \/ SearchEmbedder
  \/ SearchEmbedded
  \/ Export
  \/ ExportZipped

Spec == Init /\ [][Next]_vars

\* The worker with its event loop running: a model load that was started
\* ends, and every continuation that is ready to run is run. Requests arrive
\* or not.
SpecFair ==
  /\ Init
  /\ [][Next]_vars
  /\ WF_vars(EmbedderSettle)
  /\ WF_vars(IngestEmbedder)
  /\ WF_vars(IngestBatch)
  /\ WF_vars(IngestDelay)
  /\ WF_vars(SearchEmbedder)
  /\ WF_vars(SearchEmbedded)
  /\ WF_vars(ExportZipped)

(***************************************************************************)
(* The page (Home) and the worker together. The page posts requests to the *)
(* worker and the worker posts responses to the page; both queues are      *)
(* FIFO, and a message waits in its queue until the receiver's event loop  *)
(* takes it. The worker's handlers are the ones above, taking their        *)
(* request from the page's queue.                                          *)
(***************************************************************************)
MaxClicks == 4

\* The files the user may have selected: one file of two chunks, one of
\* eleven chunks (two batches), one without a token, and a selection with
\* no file of a supported type.
PageFileSets ==
  {<<[path |-> "a", text |-> CatDog]>>,
   <<[path |-> "l", text |-> Eleven]>>,
   <<[path |-> "c", text |-> Blank]>>,
   <<>>}

PageChunking == [kind |-> "fixed_tokens", maxTokens |-> 1]

PageQuery == <<"d", "o", "g", " ", "c", "a", "t">>

InitPage ==
  /\ hasSegmenter = TRUE
  /\ IdleChunk
  /\ IdleIndex
  /\ IdleFuse
  /\ IdleWorker
  /\ IdleSnapshot
  /\ IdleTokenize
  /\ IdlePage

\* The index with the chunks of these files added stays within LogTable.
IndexFits(files) ==
  2 * (bm25.totalDocs + Len(parseAndChunk(files, PageChunking))) + 2 <= Len(LogTable)

\* Home.handleIngest up to `await readAllowedTextFiles(selectedFiles)`; the
\* Ingest button is disabled while isIngesting.
PageIngest ==
  /\ clicks < MaxClicks
  /\ ~isIngesting
  /\ \E files \in PageFileSets :
       /\ IndexFits(files)
       /\ reading' = <<[files |-> files, retrieval |-> uiMode]>>
  /\ isIngesting' = TRUE
  /\ currentlyProcessing' = uiMode
  /\ embeddingPlanned' = 0
  /\ embeddingBuilt' = 0
  /\ clicks' = clicks + 1
  /\ UNCHANGED <<hasSegmenter, snapVars, tokenVars, chunkVars, indexVars, fuseVars, workerVars,
                 uiMode, embedderState, completedIngestions, toWorker, toPage>>

\* Home.handleIngest from the await on: the early return without files, or
\* the ingest request posted with the mode of the click.
PageIngestRead ==
  /\ reading # <<>>
  /\ IF Len(reading[1].files) = 0
     THEN isIngesting' = FALSE /\ UNCHANGED toWorker
     ELSE /\ toWorker' = Append(toWorker, [type |-> "ingest", files |-> reading[1].files,
                                           chunking |-> PageChunking,
                                           retrieval |-> reading[1].retrieval])
          /\ UNCHANGED isIngesting
  /\ reading' = <<>>
  /\ UNCHANGED <<hasSegmenter, snapVars, tokenVars, chunkVars, indexVars, fuseVars, workerVars,
                 uiMode, embedderState, embeddingPlanned, embeddingBuilt, currentlyProcessing,
                 completedIngestions, toPage, clicks>>

\* One of the three mode buttons: setMode(m).
PageSetMode ==
  /\ clicks < MaxClicks
  /\ \E m \in Retrievals \ {uiMode} : uiMode' = m
  /\ clicks' = clicks + 1
  /\ UNCHANGED <<hasSegmenter, snapVars, tokenVars, chunkVars, indexVars, fuseVars, workerVars,
                 embedderState, embeddingPlanned, embeddingBuilt, currentlyProcessing,
                 completedIngestions, isIngesting, reading, toWorker, toPage>>

\* The guard of Home.handleSearch: dense and hybrid searches are not sent.
SearchUnavailable ==
  /\ uiMode \in {"dense", "hybrid"}
  /\ embedderState # "ready" \/ embeddingBuilt < embeddingPlanned

\* Home.handleSearch with a query that is not blank.
PageSearch ==
  /\ clicks < MaxClicks
  /\ IF SearchUnavailable
     THEN uiMode' = "sparse" /\ UNCHANGED toWorker
     ELSE /\ toWorker' = Append(toWorker, [type |-> "search", query |-> PageQuery,
                                           topK |-> MaxTopK, mode |-> uiMode])
          /\ UNCHANGED uiMode
  /\ clicks' = clicks + 1
  /\ UNCHANGED <<hasSegmenter, snapVars, tokenVars, chunkVars, indexVars, fuseVars, workerVars,
                 embedderState, embeddingPlanned, embeddingBuilt, currentlyProcessing,
                 completedIngestions, isIngesting, reading, toPage>>

\* The effect on [embeddingBuilt, embeddingPlanned]: whether it marks the
\* ingest in progress as complete.
EmbeddingsComplete(planned, built) ==
  /\ planned > 0
  /\ built > 0
  /\ built >= planned
  /\ currentlyProcessing \in {"dense", "hybrid"}

\* w.onmessage of the page for the oldest response in the queue, with the
\* effect that runs when embeddingPlanned or embeddingBuilt has changed.
PageOnMessage ==
  /\ toPage # <<>>
  /\ toPage' = Tail(toPage)
  /\ LET data == Head(toPage)
         planned == IF data.type = "embeddingStarted" THEN data.total ELSE embeddingPlanned
         built == IF data.type = "embeddingsBuilt" THEN embeddingBuilt + data.count
                  ELSE embeddingBuilt
         changed == planned # embeddingPlanned \/ built # embeddingBuilt
         done == IF data.type = "ingested" THEN currentlyProcessing = "sparse"
                 ELSE changed /\ EmbeddingsComplete(planned, built)
     IN /\ embeddingPlanned' = planned
        /\ embeddingBuilt' = built
        /\ isIngesting' = IF data.type = "ingested" THEN FALSE ELSE isIngesting
        /\ embedderState' =
             IF data.type = "embedderLoading"
             THEN (IF embedderState = "idle" THEN "loading" ELSE embedderState)
             ELSE IF data.type = "embedderReady" THEN "ready"
             ELSE IF data.type = "embedderFailed" THEN "failed"
             ELSE embedderState
        /\ completedIngestions' = IF done THEN completedIngestions \cup {currentlyProcessing}
                                  ELSE completedIngestions
        /\ currentlyProcessing' = IF done THEN "null" ELSE currentlyProcessing
  /\ UNCHANGED <<hasSegmenter, snapVars, tokenVars, chunkVars, indexVars, fuseVars, workerVars,
                 uiMode, reading, toWorker, clicks>>

\* What a step of the worker leaves alone on the page; its messages join the
\* queue of the page.
WorkerPosts ==
  /\ toPage' = toPage \o posted'
  /\ UNCHANGED <<hasSegmenter, snapVars, tokenVars, chunkVars, fuseVars, added, restored,
                 lastSearch, requests, uiMode, embedderState, embeddingPlanned, embeddingBuilt,
                 currentlyProcessing, completedIngestions, isIngesting, reading, clicks>>

\* self.onmessage for the oldest request of the page: handleIngest or
\* handleSearch up to its first await, or to its end.
WorkerOnMessage ==
  /\ toWorker # <<>>
  /\ ~MicrotaskPending
  /\ toWorker' = Tail(toWorker)
  /\ LET msg == Head(toWorker)
     IN IF msg.type = "ingest"
        THEN LET chunks == parseAndChunk(msg.files, msg.chunking)
             IN /\ chunkIdToChunk' = SetChunks(chunkIdToChunk, chunks)
                /\ bm25' = IF msg.retrieval \in {"sparse", "hybrid"}
                           THEN buildBM25(bm25, chunks) ELSE bm25
                /\ IF msg.retrieval \in {"dense", "hybrid"}
                   THEN /\ posted' = (IF embedderReady = "null"
                                      THEN <<[type |-> "embedderLoading"]>> ELSE <<>>)
                        /\ embedderReady' = IF embedderReady = "null" THEN "pending"
                                            ELSE embedderReady
                        /\ tasks' = Append(tasks, [kind |-> "ingest", pc |-> "ensureEmbedder",
                                                   files |-> msg.files, chunks |-> chunks,
                                                   retrieval |-> msg.retrieval, i |-> 0])
                   ELSE /\ posted' = PostOne(Ingested(msg.files, chunks))
                        /\ UNCHANGED <<embedderReady, tasks>>
        ELSE /\ UNCHANGED <<chunkIdToChunk, bm25>>
             /\ IF msg.mode = "sparse"
                THEN /\ posted' = PostOne([type |-> "searchResults",
                                           results |-> SparseResults(bm25, chunkIdToChunk,
                                                                     msg.query, msg.topK)])
                     /\ UNCHANGED <<embedderReady, tasks>>
                ELSE /\ embedderReady' = IF embedderReady = "null" THEN "pending"
                                         ELSE embedderReady
                     /\ tasks' = Append(tasks, [kind |-> "search", pc |-> "ensureEmbedder",
                                                query |-> msg.query, topK |-> msg.topK,
                                                mode |-> msg.mode])
                     /\ posted' = <<>>
  /\ UNCHANGED embeddingsByChunkId
  /\ WorkerPosts

\* The model load inside ensureEmbedder ends.
WorkerEmbedderSettle ==
  /\ embedderReady = "pending"
  /\ embedderReady' \in {"resolved", "rejected"}
  /\ posted' = <<>>
  /\ UNCHANGED <<chunkIdToChunk, embeddingsByChunkId, tasks, bm25, toWorker>>
  /\ WorkerPosts

\* The oldest handler waiting on embedderReady goes on: handleIngest to its
\* first embedTexts call or its end, handleSearch to its embedTexts call or
\* out of the handler with the rejection.
WorkerEmbedder ==
  /\ MicrotaskPending
  /\ LET k == FirstWaiting
         t == tasks[k]
     IN IF t.kind = "ingest"
        THEN IF embedderReady = "resolved"
             THEN IF Len(t.chunks) = 0
                  THEN /\ posted' = PostOne([type |-> "embedderReady"])
                       /\ tasks' = RemoveAt(tasks, k)
                  ELSE /\ posted' = <<[type |-> "embedderReady"],
                                      [type |-> "embeddingStarted", total |-> Len(t.chunks)]>>
                       /\ tasks' = [tasks EXCEPT ![k].pc = "embedTexts"]
             ELSE /\ posted' = <<[type |-> "embedderFailed"], Ingested(t.files, t.chunks)>>
                  /\ tasks' = RemoveAt(tasks, k)
        ELSE /\ tasks' = IF embedderReady = "resolved"
                         THEN [tasks EXCEPT ![k].pc = "embedTexts"]
                         ELSE RemoveAt(tasks, k)
             /\ posted' = <<>>
  /\ UNCHANGED <<chunkIdToChunk, embeddingsByChunkId, embedderReady, bm25, toWorker>>
  /\ WorkerPosts

\* A handler goes on after `await embedTexts(...)`: handleIngest stores the
\* batch (or skips the batch that threw) up to its next await or its end,
\* handleSearch posts its results (or ends with the exception).
WorkerEmbedded ==
  /\ ~MicrotaskPending
  /\ \E k \in 1..Len(tasks), outcome \in EmbedOutcomes :
       /\ tasks[k].pc = "embedTexts"
       /\ LET t == tasks[k]
          IN IF t.kind = "ingest"
             THEN LET batch == SubSeq(t.chunks, t.i + 1, Min(t.i + batchSize, Len(t.chunks)))
                      batchTexts == [j \in 1..Len(batch) |-> batch[j].text]
                      more == t.i + batchSize < Len(t.chunks)
                  IN IF outcome = "throws"
                     THEN /\ UNCHANGED embeddingsByChunkId
                          /\ IF more
                             THEN /\ tasks' = [tasks EXCEPT ![k].i = t.i + batchSize]
                                  /\ posted' = <<>>
                             ELSE /\ tasks' = RemoveAt(tasks, k)
                                  /\ posted' = PostOne(Ingested(t.files, t.chunks))
                     ELSE /\ embeddingsByChunkId' =
                               SetVectors(embeddingsByChunkId, batch,
                                          embedTexts(batchTexts, outcome), 1)
                          /\ IF more
                             THEN /\ tasks' = [tasks EXCEPT ![k].pc = "setTimeout"]
                                  /\ posted' = PostOne([type |-> "embeddingsBuilt",
                                                        count |-> Len(batch)])
                             ELSE /\ tasks' = RemoveAt(tasks, k)
                                  /\ posted' = <<[type |-> "embeddingsBuilt",
                                                  count |-> Len(batch)],
                                                 Ingested(t.files, t.chunks)>>
             ELSE /\ tasks' = RemoveAt(tasks, k)
                  /\ UNCHANGED embeddingsByChunkId
                  /\ IF outcome = "throws"
                     THEN posted' = <<>>
                     ELSE posted' = PostOne(SearchResults(t, embedTexts(<<t.query>>, outcome)))
  /\ UNCHANGED <<chunkIdToChunk, embedderReady, bm25, toWorker>>
  /\ WorkerPosts

\* The 50 ms pause of handleIngest between two batches ends.
WorkerDelay ==
  /\ ~MicrotaskPending
  /\ \E k \in 1..Len(tasks) :
       /\ tasks[k].pc = "setTimeout"
       /\ tasks' = [tasks EXCEPT ![k].pc = "embedTexts", ![k].i = tasks[k].i + batchSize]
  /\ posted' = <<>>
  /\ UNCHANGED <<chunkIdToChunk, embeddingsByChunkId, embedderReady, bm25, toWorker>>
  /\ WorkerPosts

NextPage ==
  \/ PageIngest
  \/ PageIngestRead
  \/ PageSetMode
  \/ PageSearch
  \/ PageOnMessage
  \/ WorkerOnMessage
  \/ WorkerEmbedderSettle
  \/ WorkerEmbedder
  \/ WorkerEmbedded
  \/ WorkerDelay

SpecPage == InitPage /\ [][NextPage]_vars

(***************************************************************************)
(* Properties of the chunkers (checked under SpecChunk).                   *)
(***************************************************************************)
\* Parameters the specification calls valid: positive sizes and an overlap
\* below the window.
ValidMethod(m) ==
  \/ m.kind = "fixed_tokens" /\ m.maxTokens >= 1
  \/ /\ m.kind = "sliding_tokens" /\ m.maxTokens >= 1
     /\ m.overlapTokens >= 0 /\ m.overlapTokens < m.maxTokens
  \/ m.kind = "sent_paragraph" /\ m.targetChars >= 1 /\ m.sentenceOverlap >= 0
  \/ m.kind = "recursive" /\ m.targetChars >= 1

Covered(i) == \E k \in 1..Len(cOut) : cOut[k].charStart <= i /\ i < cOut[k].charEnd

\* C1: with valid parameters the spans [charStart, charEnd) of the returned
\* chunks cover every character index of the text.
C1_Coverage ==
  ValidMethod(cMethod) => \A i \in 0..(Len(cText) - 1) : Covered(i)

\* C2: every chunk's id is "{docId}:{charStart}-{charEnd}" and no two chunks of
\* the list returned for one document have the same id.
C2_UniqueIds ==
  ValidMethod(cMethod) =>
    /\ \A k \in 1..Len(cOut) :
         cOut[k].id = FormatId(cOut[k].docId, cOut[k].charStart, cOut[k].charEnd)
    /\ \A i, j \in 1..Len(cOut) : i # j => cOut[i].id # cOut[j].id

\* C3: with valid parameters every chunk has 0 <= charStart < charEnd <= len(text).
C3_SpanBounds ==
  ValidMethod(cMethod) =>
    \A k \in 1..Len(cOut) :
      /\ 0 <= cOut[k].charStart
      /\ cOut[k].charStart < cOut[k].charEnd
      /\ cOut[k].charEnd <= Len(cText)

\* A recursive chunking of a document with a heading that returned two chunks,
\* the last one ending before the end of the text.
C3_Witness ==
  /\ cMethod.kind = "recursive" /\ ValidMethod(cMethod)
  /\ Len(HeadingStarts(cText)) > 0
  /\ Len(cOut) >= 2
  /\ cOut[Len(cOut)].charEnd < Len(cText)

(***************************************************************************)
(* Properties of BM25Index (checked under SpecIndex).                      *)
(***************************************************************************)
\* The scores map of a search before it is sorted and cut.
ScoresOf(query) == ScoreTerms(bm25, <<>>, tokenize(query))

Returned(s, docId) == \E a \in 1..Len(s.results) : s.results[a].docId = docId

\* C5: search returns at most topK entries, in order of non-increasing score,
\* and no chunk left out has a higher score than one returned.
C5_TopKOrdered ==
  \A i \in 1..Len(lastSearch) :
    LET s == lastSearch[i]
        r == s.results
        scores == ScoresOf(s.query)
    IN /\ Len(r) <= s.topK
       /\ Len(r) = Min(s.topK, Len(scores))
       /\ \A a, b \in 1..Len(r) : a < b => r[a].score >= r[b].score /\ r[a].docId # r[b].docId
       /\ \A a \in 1..Len(r) :
            MapHas(scores, r[a].docId) /\ r[a].score = MapGet(scores, r[a].docId, 0)
       /\ \A k \in 1..Len(scores) :
            ~Returned(s, scores[k][1]) => \A a \in 1..Len(r) : scores[k][2] <= r[a].score

\* Three chunks score, two are returned in strictly decreasing order, and the
\* one left out scores strictly less.
C5_Witness ==
  /\ lastSearch # <<>>
  /\ lastSearch[1].topK = 2
  /\ Len(lastSearch[1].results) = 2
  /\ Len(ScoresOf(lastSearch[1].query)) = 3
  /\ lastSearch[1].results[1].score > lastSearch[1].results[2].score
  /\ \E k \in 1..3 :
       /\ ~Returned(lastSearch[1], ScoresOf(lastSearch[1].query)[k][1])
       /\ ScoresOf(lastSearch[1].query)[k][2] < lastSearch[1].results[2].score

TermsOf(text) == LET tokens == tokenize(text) IN {tokens[k] : k \in 1..Len(tokens)}

\* The ids under which a document holding one of the terms was added.
Matching(terms) ==
  {added[k].id : k \in {n \in 1..Len(added) : TermsOf(added[n].text) \cap terms # {}}}

\* C6: every chunk returned has a strictly positive score and holds a query
\* term (a chunk without any query term is never returned), and a chunk that
\* holds a query term is missing from the result only because of the cut at
\* topK.
C6_TermMatch ==
  \A i \in 1..Len(lastSearch) :
    LET s == lastSearch[i]
        matching == Matching(TermsOf(s.query))
    IN /\ \A a \in 1..Len(s.results) :
            s.results[a].score > 0 /\ s.results[a].docId \in matching
       /\ \A docId \in matching : ~Returned(s, docId) => Len(s.results) = s.topK

\* The scenario: "the cat sat on the mat" and "the dog sat on the log" added,
\* query "cat": the first chunk alone is returned, with a positive score.
C6_Witness ==
  /\ added = <<[id |-> "doc1:0-22", text |-> CatMat], [id |-> "doc2:0-22", text |-> DogLog]>>
  /\ lastSearch # <<>>
  /\ lastSearch[1].query = <<"c", "a", "t">>
  /\ lastSearch[1].topK = 2
  /\ Len(lastSearch[1].results) = 1
  /\ lastSearch[1].results[1].docId = "doc1:0-22"
  /\ lastSearch[1].results[1].score > 0

\* C7: the index rebuilt by fromJSON(serialize()) answers every search as the
\* original does, also after the same documents were added to both.
C7_RoundTrip ==
  \A i \in 1..Len(lastSearch) :
    \A j \in 1..Len(lastSearch[i].restoredResults) :
      lastSearch[i].restoredResults[j] = lastSearch[i].results

\* A search on a rebuilt index, with documents added to both since, that
\* returned two chunks.
C7_Witness ==
  /\ lastSearch # <<>>
  /\ restored # <<>>
  /\ restored[1].grown
  /\ Len(lastSearch[1].results) = 2
  /\ Len(lastSearch[1].restoredResults) = 1

(***************************************************************************)
(* Claims on the rank fusion.                                              *)
(***************************************************************************)
\* The 0-based position of a chunk id in a ranking, Undefined when absent.
PositionIn(ids, id) ==
  IF \E i \in 1..Len(ids) : ids[i] = id
  THEN (CHOOSE i \in 1..Len(ids) : ids[i] = id) - 1
  ELSE Undefined

\* What one ranking gives a chunk: 1 / (60 + i + 1) at position i, else 0.
Reciprocal(ids, id) ==
  IF PositionIn(ids, id) = Undefined THEN <<0, 1>> ELSE <<1, 60 + PositionIn(ids, id) + 1>>

ExpectedFused(id) == FracAdd(Reciprocal(fSparse, id), Reciprocal(fDense, id))

RankedIds(ranked) == {ranked[i][1] : i \in 1..Len(ranked)}

\* C8: every chunk the hybrid fusion returns carries the sum, over the sparse
\* and the dense ranking, of 1 / (60 + i + 1) for each ranking that holds the
\* chunk at 0-based position i.
C8_FusedScore ==
  fTopK # NotFused =>
    \A i \in 1..Len(fRanked) :
      /\ fRanked[i][1] \in RankedIds([k \in 1..Len(fSparse) |-> <<fSparse[k]>>])
                             \cup RankedIds([k \in 1..Len(fDense) |-> <<fDense[k]>>])
      /\ FracEq(fRanked[i][2], ExpectedFused(fRanked[i][1]))

\* A chunk first in the sparse ranking and fifth in the dense one is returned
\* with 1/61 + 1/65 = 126/3965.
C8_Witness ==
  /\ fTopK # NotFused
  /\ \E i \in 1..Len(fRanked) :
       /\ PositionIn(fSparse, fRanked[i][1]) = 0
       /\ PositionIn(fDense, fRanked[i][1]) = 4
       /\ fRanked[i][2] = <<126, 3965>>

\* The same (id, score) pairs in two fusion results.
SameEntries(x, y) ==
  /\ \A i \in 1..Len(x) : \E j \in 1..Len(y) : x[i][1] = y[j][1] /\ FracEq(x[i][2], y[j][2])
  /\ \A j \in 1..Len(y) : \E i \in 1..Len(x) : x[i][1] = y[j][1] /\ FracEq(x[i][2], y[j][2])

\* C9 as stated: exchanging the sparse and the dense ranking returns the same
\* set of chunk ids with the same fused scores, ties at the cut-off included.
C9_Symmetry == fTopK # NotFused => SameEntries(fRanked, fSwapped)

\* A chunk left out of the result has the fused score of the last one returned.
TieAtCutoff ==
  /\ Len(fRanked) > 0
  /\ \E id \in RankIds \ RankedIds(fRanked) :
       /\ PositionIn(fSparse, id) # Undefined \/ PositionIn(fDense, id) # Undefined
       /\ FracEq(ExpectedFused(id), fRanked[Len(fRanked)][2])

\* C9 amended: exchanging the two rankings returns as many chunks with the
\* same scores position by position, gives a chunk returned by both the same
\* score, and returns the same chunks unless a tie straddles the cut-off.
C9_SymmetryUpToTies ==
  fTopK # NotFused =>
    /\ Len(fRanked) = Len(fSwapped)
    /\ \A i \in 1..Len(fRanked) : FracEq(fRanked[i][2], fSwapped[i][2])
    /\ \A i \in 1..Len(fRanked) : \A j \in 1..Len(fSwapped) :
         fRanked[i][1] = fSwapped[j][1] => FracEq(fRanked[i][2], fSwapped[j][2])
    /\ ~TieAtCutoff => SameEntries(fRanked, fSwapped)

\* Two different rankings that share a chunk at different positions, fused
\* and cut below the number of fused chunks, with no tie at the cut-off.
C9_Witness ==
  /\ fTopK # NotFused
  /\ fTopK >= 1
  /\ Len(fRanked) = fTopK
  /\ ~TieAtCutoff
  /\ \E id \in RankIds \ RankedIds(fRanked) : PositionIn(fSparse, id) # Undefined
  /\ \E id \in RankedIds(fRanked) :
       /\ PositionIn(fSparse, id) # Undefined
       /\ PositionIn(fDense, id) # Undefined
       /\ PositionIn(fSparse, id) # PositionIn(fDense, id)

(***************************************************************************)
(* Claims on the worker.                                                   *)
(***************************************************************************)
IngestTasks(ts) == SelectSeq(ts, LAMBDA t : t.kind = "ingest")

\* A step of handleSearch or handleExport: a suspended search or export call
\* is created, resumed or ended, or a request is answered at once with
\* searchResults or exported; the suspended ingest calls stay as they are.
SearchOrExportStep ==
  /\ IngestTasks(tasks') = IngestTasks(tasks)
  /\ \/ tasks' # tasks
     \/ /\ requests' = requests + 1
        /\ \E i \in 1..Len(posted') : posted'[i].type \in {"searchResults", "exported"}

\* C10: no step of a search request (any mode) or of an export request (any
\* kind) changes the sparse index, the chunk map or the stored embedding
\* vectors.
C10_ReadOnly ==
  [][SearchOrExportStep => UNCHANGED <<bm25, chunkIdToChunk, embeddingsByChunkId>>]_vars

\* A search has just been answered with results on a session that holds
\* chunks, index entries and embedding vectors.
C10_Witness ==
  /\ Len(chunkIdToChunk) > 0
  /\ bm25.totalDocs > 0
  /\ Len(embeddingsByChunkId) > 0
  /\ \E i \in 1..Len(posted) :
       posted[i].type = "searchResults" /\ Len(posted[i].results) > 0

(***************************************************************************)
(* Claims on the worker's ingest.                                          *)
(***************************************************************************)
\* The suspended handleIngest call k ends in this step.
IngestEnds(k) == tasks[k].kind = "ingest" /\ tasks' = RemoveAt(tasks, k)

IngestedFor(t) ==
  [type |-> "ingested", stats |-> [docs |-> Len(t.files), chunks |-> Len(t.chunks)]]

\* C11: a handleIngest call never ends without posting, in the step that ends
\* it, exactly one 'ingested' message with docs = number of files and
\* chunks = number of chunks created (without it the request is never
\* answered).
C11_IngestAnswered ==
  [][\A k \in 1..Len(tasks) :
       IngestEnds(k) =>
         /\ \E i \in 1..Len(posted') : posted'[i] = IngestedFor(tasks[k])
         /\ Cardinality({i \in 1..Len(posted') : posted'[i].type = "ingested"}) = 1]_vars

\* C12: every chunk of the chunk map is in the sparse index: its id is a key
\* of the length map and each of its terms has a posting for the id.
C12_ChunksIndexed ==
  \A i \in 1..Len(chunkIdToChunk) :
    LET c == chunkIdToChunk[i][2]
        terms == tokenize(c.text)
    IN /\ MapHas(bm25.docLengths, c.id)
       /\ \A k \in 1..Len(terms) :
            \E p \in 1..Len(MapGet(bm25.vocab, terms[k], <<>>)) :
              MapGet(bm25.vocab, terms[k], <<>>)[p].docId = c.id

\* C13: the chunk stored under a key of the chunk map never changes.
C13_ChunkImmutable ==
  [][\A i \in 1..Len(chunkIdToChunk) :
       MapGet(chunkIdToChunk', chunkIdToChunk[i][1], UndefinedChunk) = chunkIdToChunk[i][2]]_vars

MapKeys(m) == {m[i][1] : i \in 1..Len(m)}

\* C14: no step decreases the index totals N and L or removes a key from the
\* chunk map, the length map, the posting map or the embeddings map.
C14_OnlyGrows ==
  [][/\ bm25'.totalDocs >= bm25.totalDocs
     /\ bm25'.totalDocLength >= bm25.totalDocLength
     /\ MapKeys(chunkIdToChunk) \subseteq MapKeys(chunkIdToChunk')
     /\ MapKeys(bm25.docLengths) \subseteq MapKeys(bm25'.docLengths)
     /\ MapKeys(bm25.vocab) \subseteq MapKeys(bm25'.vocab)
     /\ MapKeys(embeddingsByChunkId) \subseteq MapKeys(embeddingsByChunkId')]_vars

\* Two ingests have been handled to their end: the index was grown twice
\* over the same chunk ids and embedding vectors are stored.
C14_Witness ==
  /\ requests = 2
  /\ tasks = <<>>
  /\ bm25.totalDocs > Len(bm25.docLengths)
  /\ bm25.totalDocLength > 0
  /\ Len(embeddingsByChunkId) > 0

(***************************************************************************)
(* Claims on addDocuments.                                                 *)
(***************************************************************************)
RECURSIVE SumSeq(_)
SumSeq(numbers) == IF Len(numbers) = 0 THEN 0 ELSE Head(numbers) + SumSeq(Tail(numbers))

\* The added documents as (id, tokens, set of terms).
AddedTokens ==
  [i \in 1..Len(added) |->
     LET tokens == tokenize(added[i].text)
     IN [id |-> added[i].id, length |-> Len(tokens),
         terms |-> {tokens[k] : k \in 1..Len(tokens)}]]

\* The ids of the added documents that contain the term, one per addition.
AddedWith(docs, term) ==
  LET with == SelectSeq(docs, LAMBDA d : term \in d.terms)
  IN [i \in 1..Len(with) |-> with[i].id]

\* C15: every addition counts, an id already indexed included: N is the
\* number of additions, L the sum of their token counts, a term's posting
\* list has one posting per addition of a document with the term, while the
\* length map has a single entry per distinct id.
C15_NotIdempotent ==
  LET docs == AddedTokens
  IN /\ bm25.totalDocs = Len(added)
     /\ bm25.totalDocLength = SumSeq([i \in 1..Len(docs) |-> docs[i].length])
     /\ MapKeys(bm25.docLengths) = {added[i].id : i \in 1..Len(added)}
     /\ Len(bm25.docLengths) = Cardinality({added[i].id : i \in 1..Len(added)})
     /\ \A v \in 1..Len(bm25.vocab) :
          [p \in 1..Len(bm25.vocab[v][2]) |-> bm25.vocab[v][2][p].docId]
            = AddedWith(docs, bm25.vocab[v][1])

\* An id has been added twice: N exceeds the number of distinct ids and a
\* term's list holds two postings for the id.
C15_Witness ==
  /\ bm25.totalDocs > Len(bm25.docLengths)
  /\ \E v \in 1..Len(bm25.vocab) :
       \E p, q \in 1..Len(bm25.vocab[v][2]) :
         p < q /\ bm25.vocab[v][2][p].docId = bm25.vocab[v][2][q].docId

(***************************************************************************)
(* Claims on dense and hybrid requests.                                    *)
(***************************************************************************)
\* The suspended dense or hybrid search k is answered with searchResults.
DenseSearchAnswered(k) ==
  /\ tasks[k].kind = "search"
  /\ tasks' = RemoveAt(tasks, k)
  /\ \E i \in 1..Len(posted') : posted'[i].type = "searchResults"

HasVector(id) == Len(MapGet(embeddingsByChunkId, id, NoVector)) > 0

\* C16: a dense or hybrid search is answered with a searchResults list only
\* when every chunk of the session has a stored embedding vector.
C16_MissingVectorsSurfaced ==
  [][\A k \in 1..Len(tasks) :
       DenseSearchAnswered(k) => \A id \in MapKeys(chunkIdToChunk) : HasVector(id)]_vars

\* The embedding provider fails for the suspended ingest k and the call ends
\* in this step: the model load was rejected, or embedTexts threw for the
\* last batch (no embeddingsBuilt is posted for it).
ProviderFailed(k) ==
  /\ IngestEnds(k)
  /\ \/ tasks[k].pc = "ensureEmbedder" /\ embedderReady = "rejected"
     \/ /\ tasks[k].pc = "embedTexts"
        /\ \A i \in 1..Len(posted') : posted'[i].type # "embeddingsBuilt"

\* C17: when the embedding provider fails for an ingest and the ingest ends,
\* a failure message is posted before 'ingested' or instead of it.
C17_FailureReported ==
  [][\A k \in 1..Len(tasks) :
       ProviderFailed(k) =>
         \E i \in 1..Len(posted') :
           /\ posted'[i].type \in {"embedderFailed", "status"}
           /\ \A j \in 1..i : posted'[j].type # "ingested"]_vars

(***************************************************************************)
(* Claims on a hybrid ingest whose embedding fails.                        *)
(***************************************************************************)

\* The suspended ingest k moves in this step and the embedding provider has
\* failed for it: the model load was rejected, or embedTexts threw for the
\* batch (nothing is stored and no embeddingsBuilt is posted).
EmbeddingFails(k) ==
  /\ tasks[k].kind = "ingest"
  /\ \/ tasks' = RemoveAt(tasks, k)
     \/ Len(tasks') = Len(tasks) /\ tasks'[k] # tasks[k]
  /\ \/ tasks[k].pc = "ensureEmbedder" /\ embedderReady = "rejected"
     \/ /\ tasks[k].pc = "embedTexts"
        /\ \A i \in 1..Len(posted') : posted'[i].type # "embeddingsBuilt"

\* A suspended ingest call resumes in this step.
IngestContinues ==
  /\ requests' = requests
  /\ \E k \in 1..Len(tasks) :
       /\ tasks[k].kind = "ingest"
       /\ \/ tasks' = RemoveAt(tasks, k)
          \/ Len(tasks') = Len(tasks) /\ tasks'[k] # tasks[k]

\* Every chunk of the request is a key of the chunk map and a document of the
\* index, posted under each of its terms, and a sparse search for its text
\* over the whole index returns it.
Committed(index, map, chunks) ==
  \A j \in 1..Len(chunks) :
    LET c == chunks[j]
        terms == tokenize(c.text)
        found == SparseResults(index, map, c.text, index.totalDocs)
    IN /\ MapHas(map, c.id)
       /\ MapHas(index.docLengths, c.id)
       /\ \A n \in 1..Len(terms) :
            \E p \in 1..Len(MapGet(index.vocab, terms[n], <<>>)) :
              MapGet(index.vocab, terms[n], <<>>)[p].docId = c.id
       /\ Len(terms) > 0 =>
            \E r \in 1..Len(found) :
              found[r].chunk # UndefinedChunk /\ found[r].chunk.id = c.id

C19_InvalidRejected ==
  (cMethod # NoMethod /\ ~ValidMethod(cMethod)) => cOut = <<>>

\* The text has no character other than white space.
BlankText(text) == \A i \in 1..Len(text) : IsSpace(text[i])

\* C20: with valid parameters a text that is empty or all white space gives
\* no chunk, and no returned chunk has a text that is empty or all white space.
C20_NoBlankChunks ==
  ValidMethod(cMethod) =>
    /\ BlankText(cText) => cOut = <<>>
    /\ \A k \in 1..Len(cOut) : ~BlankText(cOut[k].text)

(***************************************************************************)
(* Claims on short documents and on the token windows.                     *)
(***************************************************************************)

\* The document is shorter than one window (token strategies) or one target
\* (character strategies).
ShorterThanOne(text, m) ==
  IF m.kind \in {"fixed_tokens", "sliding_tokens"}
  THEN Len(TokenStarts(text)) <= m.maxTokens
  ELSE Len(text) < m.targetChars

\* C21: with valid parameters a non-empty document shorter than one window or
\* target gives exactly one chunk, from offset 0 to the length of the text.
C21_ShortDocOneChunk ==
  (ValidMethod(cMethod) /\ Len(cText) > 0 /\ ShorterThanOne(cText, cMethod)) =>
    /\ Len(cOut) = 1
    /\ cOut[1].charStart = 0
    /\ cOut[1].charEnd = Len(cText)

\* The indices of the tokens, given by their starts and ends, that lie inside
\* the chunk c.
TokensIn(starts, ends, c) ==
  {t \in 0..(Len(starts) - 1) : c.charStart <= At(starts, t) /\ At(ends, t) <= c.charEnd}

\* C22: for n >= 1 tokens and 0 <= overlapTokens < maxTokens the windows start
\* at the tokens 0, s, 2s, ... with s = maxTokens - overlapTokens, each holds
\* maxTokens tokens but the last, which is the first to reach token n - 1 and
\* is cut there, and two consecutive windows share overlapTokens tokens.
C22_Windows ==
  (cMethod.kind \in {"fixed_tokens", "sliding_tokens"} /\ ValidMethod(cMethod)) =>
    LET starts == TokenStarts(cText)
        ends == TokenEnds(cText)
        n == Len(starts)
        maxTokens == cMethod.maxTokens
        overlapTokens == IF cMethod.kind = "sliding_tokens" THEN cMethod.overlapTokens ELSE 0
        s == maxTokens - overlapTokens
        count == CHOOSE k \in 1..n :
                   /\ (k - 1) * s + maxTokens >= n
                   /\ \A j \in 1..(k - 1) : (j - 1) * s + maxTokens < n
        windows == [k \in 1..Len(cOut) |-> TokensIn(starts, ends, cOut[k])]
    IN n >= 1 =>
         /\ Len(cOut) = count
         /\ \A k \in 1..Len(cOut) :
              /\ windows[k] = ((k - 1) * s)..(Min((k - 1) * s + maxTokens, n) - 1)
              /\ cOut[k].charStart = At(starts, (k - 1) * s)
         /\ \A k \in 1..(Len(cOut) - 1) :
              Cardinality(windows[k] \cap windows[k + 1]) = overlapTokens

\* The 25-token document with maxTokens 10 and overlapTokens 3 has given four
\* chunks, starting at the tokens 0, 7, 14 and 21.
C22_Witness ==
  /\ cText = LongText
  /\ cMethod = TenThree
  /\ Len(cOut) = 4
  /\ \A k \in 1..4 : cOut[k].charStart = 14 * (k - 1)
  /\ cOut[4].charEnd = 49

(***************************************************************************)
(* Claims on the index: the average length, the idf, the snapshots.        *)
(***************************************************************************)

\* C23: a posting exists only in an index with totalDocs > 0 and
\* totalDocLength > 0, so no score is divided by a zero average length: a
\* search on the empty index returns nothing for every query, and no
\* returned score is NaN.
C23_NoZeroAvgdl ==
  /\ Len(bm25.vocab) > 0 => (bm25.totalDocs > 0 /\ bm25.totalDocLength > 0)
  /\ \A i \in 1..Len(bm25.vocab) : Len(bm25.vocab[i][2]) > 0
  /\ bm25.totalDocs = 0 =>
       \A query \in Queries, topK \in 0..MaxTopK : search(bm25, query, topK) = <<>>
  /\ \A s \in 1..Len(lastSearch) :
       \A r \in 1..Len(lastSearch[s].results) : lastSearch[s].results[r].score # NaN

\* A search has returned results on an index that holds a document without
\* any token and an id added twice.
C23_Witness ==
  /\ \E i \in 1..Len(added) : tokenize(added[i].text) = <<>>
  /\ \E i, j \in 1..Len(added) : i < j /\ added[i].id = added[j].id
  /\ Len(lastSearch) = 1
  /\ Len(lastSearch[1].results) > 0

\* (N - n + 0.5) / (n + 0.5) > (N - m + 0.5) / (m + 0.5), on the doubled
\* numerators and denominators.
IdfArgGreater(N, n, m) == (2 * (N - n) + 1) * (2 * m + 1) > (2 * (N - m) + 1) * (2 * n + 1)

\* The largest N whose idf the logarithm table covers.
IdfTableDocs == Len(LogTable) \div 2 - 1

\* C24: for N >= 1 the idf argument and the idf strictly decrease as n_t goes
\* from 1 to N and stay strictly positive, and in every index n_t, the length
\* of a posting list, is between 1 and N = totalDocs, so the idf of every
\* indexed term is positive and smaller for the term with more postings.
C24_IdfDecreasing ==
  /\ \A N \in 1..IdfTableDocs :
       \A n \in 1..N :
         /\ 2 * (N - n) + 1 > 0
         /\ Idf(N, n) > 0
         /\ n < N => (IdfArgGreater(N, n, n + 1) /\ Idf(N, n) > Idf(N, n + 1))
  /\ \A i \in 1..Len(bm25.vocab) :
       LET n_t == Len(bm25.vocab[i][2])
       IN /\ 1 <= n_t /\ n_t <= bm25.totalDocs
          /\ Idf(bm25.totalDocs, n_t) > 0
          /\ \A j \in 1..Len(bm25.vocab) :
               n_t < Len(bm25.vocab[j][2]) =>
                 Idf(bm25.totalDocs, n_t) > Idf(bm25.totalDocs, Len(bm25.vocab[j][2]))

\* The index holds a term posted for every document and a term posted for
\* fewer.
C24_Witness ==
  /\ bm25.totalDocs >= 2
  /\ \E i, j \in 1..Len(bm25.vocab) :
       /\ Len(bm25.vocab[i][2]) = bm25.totalDocs
       /\ Len(bm25.vocab[j][2]) < bm25.totalDocs

\* C25: what serialize() returned is an independent copy. A step that adds
\* documents to one index changes no snapshot and no other index: every
\* snapshot holds after each step what it held before, and so does every
\* index, live or rebuilt, that the step was not called on.
C25_SnapshotIndependent ==
  [][/\ \A d \in 1..Len(dumps) : ValueOnHeap(heap', dumps[d]) = ValueOnHeap(heap, dumps[d])
     /\ live' = live => ValueOnHeap(heap', live) = ValueOnHeap(heap, live)
     /\ \A k \in 1..Len(rebuilt) :
          rebuilt'[k] = rebuilt[k] =>
            ValueOnHeap(heap', rebuilt[k]) = ValueOnHeap(heap, rebuilt[k])]_vars

\* Documents were added to the live index after the snapshot was taken and
\* to an index rebuilt from it, a second rebuilt index was left alone, and
\* the snapshot and that second index hold what the live index held when the
\* snapshot was taken.
C25_Witness ==
  /\ Len(dumps) = 1
  /\ Len(rebuilt) = 2
  /\ dumps[1].totalDocs > 0
  /\ live.totalDocs > dumps[1].totalDocs
  /\ rebuilt[1].totalDocs > dumps[1].totalDocs
  /\ rebuilt[2].totalDocs = dumps[1].totalDocs
  /\ ValueOnHeap(heap, rebuilt[2]) = fromJSON(ValueOnHeap(heap, dumps[1]))
  /\ ValueOnHeap(heap, live) # ValueOnHeap(heap, rebuilt[1])

(***************************************************************************)
(* Claims on the order of ingests.                                         *)
(***************************************************************************)

\* The step applies the whole synchronous part of the ingest request: every
\* chunk is set in the chunk map, every chunk is added to the index when the
\* retrieval is sparse or hybrid, and a dense or hybrid request is suspended.
IngestApplied(request) ==
  LET chunks == parseAndChunk(request[1], request[2])
      docs == [i \in 1..Len(chunks) |-> [id |-> chunks[i].id, text |-> chunks[i].text]]
  IN /\ IF request[3] = "sparse"
        THEN tasks' = tasks
        ELSE /\ Len(tasks') = Len(tasks) + 1
             /\ SubSeq(tasks', 1, Len(tasks)) = tasks
             /\ tasks'[Len(tasks')].kind = "ingest"
             /\ tasks'[Len(tasks')].retrieval = request[3]
             /\ tasks'[Len(tasks')].chunks = chunks
     /\ chunkIdToChunk' = SetChunks(chunkIdToChunk, chunks)
     /\ bm25' = IF request[3] \in {"sparse", "hybrid"} THEN addDocuments(bm25, docs) ELSE bm25

\* An ingest request is received in this step.
IngestArrives ==
  /\ requests' = requests + 1
  /\ \/ \E i \in 1..Len(posted') : posted'[i].type = "ingested"
     \/ Len(tasks') = Len(tasks) + 1 /\ tasks'[Len(tasks')].kind = "ingest"

\* C26: the chunk map and the sparse index change only in the step that
\* receives an ingest request, and that step applies all of the request's
\* updates to both; so the updates of two ingests are applied whole and in
\* the order received, also while the first awaits its embeddings, and no
\* state a search can read holds a part of an ingest's sparse entries.
C26_IngestsInOrder ==
  [][/\ (chunkIdToChunk' # chunkIdToChunk \/ bm25' # bm25) => IngestArrives
     /\ IngestArrives => \E request \in IngestRequests : IngestApplied(request)]_vars

\* An ingest is suspended on its embeddings with its chunks first in the
\* chunk map, and a later ingest has added its own chunks after them and to
\* the index.
C26_Witness ==
  \E k \in 1..Len(tasks) :
    /\ tasks[k].kind = "ingest"
    /\ Len(tasks[k].chunks) > 0
    /\ Len(chunkIdToChunk) > Len(tasks[k].chunks)
    /\ \A j \in 1..Len(tasks[k].chunks) : chunkIdToChunk[j][1] = tasks[k].chunks[j].id
    /\ \A j \in (Len(tasks[k].chunks) + 1)..Len(chunkIdToChunk) :
         MapHas(bm25.docLengths, chunkIdToChunk[j][1])

(***************************************************************************)
(* Claims on the exported bundle.                                          *)
(***************************************************************************)

\* handleExport builds a bundle in this step (the session has chunks).
ExportBuilt ==
  /\ Len(tasks') = Len(tasks) + 1
  /\ tasks'[Len(tasks')].kind = "export"

\* C27: the chunks.json of every export kind has one record per chunk of the
\* chunk map, in the order of the map, the record of chunk number i having
\* the id c_ followed by i on six digits whatever the kind, and total_chunks
\* is the number of chunks of the map.
C27_ExportComplete ==
  [][ExportBuilt =>
       LET m == tasks'[Len(tasks')].message
           n == Len(chunkIdToChunk)
       IN /\ Len(m.chunks) = n
          /\ m.metadata.total_chunks = n
          /\ \A i \in 1..Len(m.chunks) :
               /\ m.chunks[i].id = ExportId(i - 1)
               /\ i <= n => m.chunks[i].text = chunkIdToChunk[i][2].text]_vars

\* C28: the sparse map generateSparseTerms builds for a chunk text has a key
\* for every distinct term tokenize yields for that text.
C28_SparseMapComplete ==
  {"tokenize", "generateSparseTerms"} \subseteq tDone =>
    \A k \in 1..Len(tTokens) : MapHas(tSparse, tTokens[k])

\* C29: an export request on a session without chunks is answered with a
\* bundle, metadata and an empty chunk list, and never with an error file.
C29_EmptyExportIsBundle ==
  Len(chunkIdToChunk) = 0 =>
    \A i \in 1..Len(posted) :
      posted[i].type = "exported" =>
        /\ posted[i].filename # "error.json"
        /\ "metadata" \in DOMAIN posted[i]
        /\ "chunks" \in DOMAIN posted[i]

LettersAndDigits ==
  {"a", "c", "d", "e", "g", "h", "m", "n", "o", "s", "t", "A", "C", "T", "1"}

LowerCased(text) ==
  [i \in 1..Len(text) |->
     IF text[i] = "A" THEN "a" ELSE IF text[i] = "C" THEN "c"
     ELSE IF text[i] = "T" THEN "t" ELSE text[i]]

\* The maximal runs of letters and digits of a text, in text order.
MaximalRuns(text) ==
  LET first == {i \in 1..Len(text) :
                  /\ text[i] \in LettersAndDigits
                  /\ i = 1 \/ text[i - 1] \notin LettersAndDigits}
      last == {i \in 1..Len(text) :
                 /\ text[i] \in LettersAndDigits
                 /\ i = Len(text) \/ text[i + 1] \notin LettersAndDigits}
      Nth(S, k) == CHOOSE x \in S : Cardinality({y \in S : y < x}) = k - 1
  IN [k \in 1..Cardinality(first) |-> SubSeq(text, Nth(first, k), Nth(last, k))]

\* C30: tokenize returns, in text order, the maximal runs of letters and
\* digits of the lower-cased text that are not stopwords; no token is empty,
\* holds a character that is not a letter or a digit, or is a stopword; and
\* a second call on the same text returns the same sequence.
C30_TokenizeRuns ==
  "tokenize" \in tDone =>
    /\ tTokens = SelectSeq(MaximalRuns(LowerCased(tText)),
                           LAMBDA run : run \notin DEFAULT_STOPWORDS)
    /\ \A k \in 1..Len(tTokens) :
         /\ tTokens[k] # <<>>
         /\ \A j \in 1..Len(tTokens[k]) : tTokens[k][j] \in LettersAndDigits
         /\ tTokens[k] \notin DEFAULT_STOPWORDS
    /\ tokenize(tText) = tTokens

C30_Witness ==
  /\ "tokenize" \in tDone
  /\ tText = <<"A", ".", "t", "1">>
  /\ tTokens = <<<<"t", "1">>>>

(***************************************************************************)
(* Claims on the loop of chunkByTokens.                                    *)
(***************************************************************************)
TokenMethod == cMethod # NoMethod /\ cMethod.kind \in {"fixed_tokens", "sliding_tokens"}

OverlapOf(method) == IF method.kind = "sliding_tokens" THEN method.overlapTokens ELSE 0

StrideOf(method) == Max(1, method.maxTokens - Max(0, OverlapOf(method)))

\* C31: whatever maxTokens and overlapTokens are, also overlapTokens >=
\* maxTokens and overlapTokens < 0, the stride of chunkByTokens is at least 1,
\* the k-th chunk starts at the token (k - 1) * stride, so the window start
\* strictly increases, and a document of n tokens gives at most n chunks.
C31_StrideAdvances ==
  TokenMethod =>
    LET starts == TokenStarts(cText)
        n == Len(starts)
        stride == StrideOf(cMethod)
    IN /\ stride >= 1
       /\ Len(cOut) <= n
       /\ \A k \in 1..Len(cOut) :
            /\ (k - 1) * stride < n
            /\ cOut[k].charStart = At(starts, (k - 1) * stride)
            /\ k > 1 => cOut[k - 1].charStart < cOut[k].charStart

\* A sliding window whose overlap is not smaller than the window: the stride
\* is 1 and a document of two or more tokens gives one chunk per token.
C31_Witness ==
  /\ TokenMethod
  /\ cMethod.maxTokens >= 1
  /\ OverlapOf(cMethod) >= cMethod.maxTokens
  /\ Len(cOut) >= 2
  /\ Len(cOut) = Len(TokenStarts(cText))

\* C32: with maxTokens >= 1 every chunk of chunkByTokens has the text
\* text.slice(charStart, charEnd), which begins and ends with a character
\* that is not white space and holds at most maxTokens tokens; every token of
\* the document lies inside a chunk; and with overlapTokens = 0 inside exactly
\* one, the chunks being in increasing charStart order with disjoint spans.
C32_TokenChunks ==
  (TokenMethod /\ cMethod.maxTokens >= 1) =>
    LET starts == TokenStarts(cText)
        ends == TokenEnds(cText)
        windows == [k \in 1..Len(cOut) |-> TokensIn(starts, ends, cOut[k])]
    IN /\ \A k \in 1..Len(cOut) :
            LET piece == cOut[k].text
            IN /\ piece = Slice(cText, cOut[k].charStart, cOut[k].charEnd)
               /\ Len(piece) > 0
               /\ ~IsSpace(piece[1])
               /\ ~IsSpace(piece[Len(piece)])
               /\ Len(TokenStarts(piece)) <= cMethod.maxTokens
               /\ Cardinality(windows[k]) = Len(TokenStarts(piece))
       /\ \A t \in 0..(Len(starts) - 1) : \E k \in 1..Len(cOut) : t \in windows[k]
       /\ OverlapOf(cMethod) = 0 =>
            /\ \A t \in 0..(Len(starts) - 1) :
                 Cardinality({k \in 1..Len(cOut) : t \in windows[k]}) = 1
            /\ \A k \in 1..(Len(cOut) - 1) :
                 /\ cOut[k].charStart < cOut[k + 1].charStart
                 /\ cOut[k].charEnd <= cOut[k + 1].charStart

\* A document of three tokens cut without overlap into a chunk of two tokens
\* and a chunk of one.
C32_Witness ==
  /\ TokenMethod
  /\ cMethod.maxTokens = 2
  /\ OverlapOf(cMethod) = 0
  /\ Len(TokenStarts(cText)) = 3
  /\ Len(cOut) = 2
  /\ Len(TokenStarts(cOut[1].text)) = 2

(***************************************************************************)
(* Claims on the sentence overlap and on the offsets of chunkRecursive.    *)
(***************************************************************************)
\* The sentences of the document with their document offsets, in order.
RECURSIVE SentencesFrom(_, _)
SentencesFrom(paraSplits, k) ==
  IF k > Len(paraSplits) THEN <<>>
  ELSE LET sentences == Segment(paraSplits[k].text)
       IN [i \in 1..Len(sentences) |->
             [segment |-> sentences[i].segment,
              start |-> paraSplits[k].start + sentences[i].index,
              end |-> paraSplits[k].start + sentences[i].index + Len(sentences[i].segment)]]
            \o SentencesFrom(paraSplits, k + 1)

RECURSIVE GlueAll(_, _)
GlueAll(accText, sentences) ==
  IF Len(sentences) = 0 THEN accText
  ELSE GlueAll(Glue(accText, Head(sentences).segment), Tail(sentences))

\* C33: with sentenceOverlap = 0 the buffer is empty after a flush, so the
\* text of every chunk is made of the sentences between its charStart and its
\* charEnd and of no other, and no sentence is in the text of two chunks.
C33_NoOverlapSeed ==
  (/\ hasSegmenter
   /\ cMethod # NoMethod /\ cMethod.kind = "sent_paragraph" /\ ValidMethod(cMethod)
   /\ cMethod.sentenceOverlap = 0) =>
    LET sentences == SentencesFrom(splitParagraphs(cText), 1)
    IN \A k \in 1..Len(cOut) :
         cOut[k].text =
           Trim(GlueAll(<<>>, SelectSeq(sentences,
                                        LAMBDA s : /\ cOut[k].charStart <= s.start
                                                   /\ s.end <= cOut[k].charEnd)))

\* C34: every chunk chunkRecursive builds from a section has its charStart
\* at or after the document offset where the section starts, and the chunks
\* come in non-decreasing charStart order.
C34_DocumentOffsets ==
  (cMethod # NoMethod /\ cMethod.kind = "recursive" /\ ValidMethod(cMethod)) =>
    LET sections == splitByHeadings(cText)
    IN /\ \A i \in 1..Len(sections) :
            LET built == SectionChunks(<<>>, DocPath, cMethod.targetChars, sections[i])
            IN \A k \in 1..Len(built) : built[k].charStart >= sections[i].start
       /\ \A k \in 1..(Len(cOut) - 1) : cOut[k].charStart <= cOut[k + 1].charStart

(***************************************************************************)
(* Claims on the hybrid search over long rankings.                         *)
(***************************************************************************)
\* C35: the hybrid search returns the top-topK list of the reciprocal rank
\* fusion of the complete sparse ranking and the complete dense ranking, a
\* chunk's sparse term counted whatever its sparse rank.
C35_CompleteFusion ==
  fTopK # NotFused => fRanked = FuseRanked(fDense, fSparse, fTopK)

\* The keys of chunkIdToChunk.
C36_ChunkKeys == {chunkIdToChunk[i][1] : i \in 1..Len(chunkIdToChunk)}

\* The chunk ids the sparse index holds: the keys of docLengths and the docId
\* of every posting.
C36_IndexedIds ==
  {bm25.docLengths[i][1] : i \in 1..Len(bm25.docLengths)}
    \cup UNION {{bm25.vocab[i][2][j].docId : j \in 1..Len(bm25.vocab[i][2])} :
                  i \in 1..Len(bm25.vocab)}

\* C36: in every state of the worker every chunk id of the sparse index
\* (length map and posting lists) and every key of the embeddings map is a
\* key of the chunk map; every entry of a posted searchResults message has a
\* defined chunk, and no two entries of one message have the same chunk id.
C36_ReferentialIntegrity ==
  /\ C36_IndexedIds \subseteq C36_ChunkKeys
  /\ {embeddingsByChunkId[i][1] : i \in 1..Len(embeddingsByChunkId)} \subseteq C36_ChunkKeys
  /\ \A m \in 1..Len(posted) :
       posted[m].type = "searchResults" =>
         LET results == posted[m].results
         IN /\ \A i \in 1..Len(results) : results[i].chunk # UndefinedChunk
            /\ \A i, j \in 1..Len(results) :
                 i # j => results[i].chunk.id # results[j].chunk.id

\* A search answered with two chunks while the index and the embeddings map
\* both hold chunks.
C36_Witness ==
  /\ Len(bm25.docLengths) > 0
  /\ Len(embeddingsByChunkId) > 0
  /\ \E m \in 1..Len(posted) :
       /\ posted[m].type = "searchResults"
       /\ Len(posted[m].results) >= 2

\* C38: a search the worker has taken and not yet answered (a dense or
\* hybrid search waiting for the model or for the query vector) is followed
\* by a searchResults message.
C38_SearchAnswered ==
  (\E k \in 1..Len(tasks) : tasks[k].kind = "search")
    ~> (\E m \in 1..Len(posted) : posted[m].type = "searchResults")

\* The chunks the worker has ingested and holds no embedding for.
C37_Unembedded ==
  {chunkIdToChunk[i][1] : i \in 1..Len(chunkIdToChunk)}
    \ {embeddingsByChunkId[i][1] : i \in 1..Len(embeddingsByChunkId)}

\* C37: when the request the worker takes next is a dense or hybrid search,
\* the worker holds an embedding for every chunk it has ingested.
C37_SearchOnlyWhenEmbedded ==
  (/\ toWorker # <<>>
   /\ Head(toWorker).type = "search"
   /\ Head(toWorker).mode \in {"dense", "hybrid"})
    => C37_Unembedded = {}

\* C39: once the page has handled the "ingested" message of a dense or
\* hybrid ingest whose model loaded and that created a chunk (the Ingest
\* button is enabled again, embeddingStarted has set embeddingPlanned since
\* the click), the embeddingsBuilt counts it added up since the click reach
\* the embeddingStarted total, the mode is among the completed ingestions,
\* nothing is marked as in progress and a dense or hybrid search is sent.
C39_IngestCompletes ==
  (/\ ~isIngesting
   /\ embedderState = "ready"
   /\ embeddingPlanned > 0)
    => /\ embeddingBuilt = embeddingPlanned
       /\ completedIngestions \cap {"dense", "hybrid"} # {}
       /\ currentlyProcessing = "null"
       /\ embedderState = "ready" /\ ~(embeddingBuilt < embeddingPlanned)

====
